---- MODULE Spec2Model ----
(***************************************************************************)
(* Smart parking system (ESP32 / FreeRTOS), src/smart-parking-esp32.       *)
(* Eight tasks share the globals of main.cpp through five mutexes and      *)
(* three queues.  Every task is a process; pc[t] names the statement the   *)
(* task executes next.  A blocking xSemaphoreTake is an action enabled     *)
(* only while the mutex is free; a take or a queue operation with a        *)
(* timeout also has the outcome "timed out".                               *)
(***************************************************************************)
EXTENDS Integers, Sequences, FiniteSets

\* ---------------------------------------------------------------- constants
TOTAL_SLOTS == 4
ENTRY_QUEUE_SIZE == 5
EXIT_QUEUE_SIZE == 5
LCD_QUEUE_SIZE == 10
SERVO_CLOSED_ANGLE == 90
SERVO_OPEN_ANGLE == 0

\* ------------------------------------------------------------------ bounds
\* vehicles that show up at the entry / exit sensor in one behaviour of Spec
MaxEntryCars == 6
MaxExitCars == 1
\* tasks, besides sensorTask, that run in one behaviour of SpecTasks, and the
\* vehicles that show up at each sensor in it
MaxStarted == 2
MaxTaskCars == 1
\* vehicles that show up at the entry sensor in a behaviour of SpecGateFair
MaxFairCars == 2

LOW == "LOW"
HIGH == "HIGH"

NoTask == "none"
Tasks == {"sensor", "gate", "led", "dht", "lcd", "web", "telegram", "wifi"}
\* the tasks and setup(), which runs in the Arduino loop task on core 1 and
\* is still running when the tasks start
Processes == Tasks \cup {"setup"}
Mutexes == {"slotsMutex", "gateStatusMutex", "lcdMutex", "dhtMutex", "timeMutex"}

EntryEvent == [type |-> "EVENT_CAR_ENTRY", value |-> 1]
ExitEvent == [type |-> "EVENT_CAR_EXIT", value |-> 1]
\* the event as its queue holds it, marked with the ordinal n of its send
\* (history: the code has no such field)
Stamp(event, n) == [type |-> event.type, value |-> event.value, seq |-> n]
EnteringMsg == [line1 |-> "Gate: OPEN", line2 |-> "Entering..."]
ExitingMsg == [line1 |-> "Gate: OPEN", line2 |-> "Exiting..."]

\* the mutex that guards each shared field (main.cpp line 121-139)
MutexOf(f) ==
    CASE f = "availableSlots" -> "slotsMutex"
      [] f = "gateStatus" -> "gateStatusMutex"
      [] f \in {"temperature", "humidity"} -> "dhtMutex"
      [] f \in {"currentTime", "currentDate"} -> "timeMutex"

\* a float is held in tenths of a unit; NaN stands for the value isnan() detects
NaN == 9999
\* what dht.readHumidity() and dht.readTemperature() return, in tenths
HumReadings == {NaN, 480}
TempReadings == {NaN, 215}
\* what getLocalTime() fills in, formatted as %H:%M:%S and %Y/%m/%d
ClockSamples == {<<"23:59:59", "2025/03/07">>, <<"00:00:00", "2025/03/08">>}
Commands == {"/start", "/status", "/time", "/temp", "/all"}
EmptyPanel == [line1 |-> <<>>, line2 |-> <<>>]
\* decimal text of a slot count, as lcd.print(int) and String(int) give it
Digits == <<"0", "1", "2", "3", "4", "5", "6", "7", "8", "9">>
IntToStr(n) == IF n < 0 THEN <<"-", Digits[(0 - n) + 1]>> ELSE <<Digits[n + 1]>>

VARIABLES
    availableSlots,   \* int availableSlots
    gateStatus,       \* String gateStatus
    entryQueue,       \* QueueHandle_t entryQueue (contents)
    exitQueue,        \* QueueHandle_t exitQueue (contents)
    lcdQueue,         \* QueueHandle_t lcdQueue (contents)
    mutex,            \* owner of each mutex, NoTask when free
    servo,            \* last angle written to barrierServo
    entryPin,         \* level of IR_ENTRY_PIN
    exitPin,          \* level of IR_EXIT_PIN
    carsLeft,         \* vehicles still to show up at <<entry, exit>>
    entryDetected,    \* sensorTask local
    exitDetected,     \* sensorTask local
    pc,               \* next statement of each task
    started,          \* the tasks that run in this behaviour
    servoCmds,        \* history: angles written for the event in flight
    entriesDequeued,  \* history: entry events received by gateTask
    exitsDequeued,    \* history: exit events received by gateTask
    phaseOpens,       \* history: times gateStatus was set to "Open"
    phaseCloses,      \* history: times gateStatus was set to "Closed"
    dropped,          \* history: events dropped on a full <<entry, exit>> queue
    eventLog,         \* history: what became of the send made since the line
                      \* last went LOW (tried), events queued (sent) and the
                      \* ordinals of the events received (got), for <<entry, exit>>
    raced,            \* history: <<task, field>> accesses made without the mutex
    greenLed,         \* level written to GREEN_LED_PIN
    redLed,           \* level written to RED_LED_PIN
    temperature,      \* float temperature
    humidity,         \* float humidity
    dhtH,             \* dhtTask local h
    dhtT,             \* dhtTask local t
    currentTime,      \* String currentTime
    currentDate,      \* String currentDate
    wifiConnected,    \* bool wifiConnected
    internetConnected,\* bool internetConnected
    newTime,          \* wifiTask local newTime
    newDate,          \* wifiTask local newDate
    lcdPanel,         \* what the LCD shows: the tokens printed on each line
    lcdMsg,           \* lcdTask local msg
    timeStr,          \* lcdTask local timeStr
    lcdElapsed,       \* lcdTask: xTaskGetTickCount() - lastUpdate >= updateInterval
    json,             \* handleData local json: the <<key, value>> pairs so far
    tgText,           \* telegramTask local text
    tgMsg             \* telegramTask local msg: the tokens so far

envVars == <<entryPin, exitPin, carsLeft>>
sensorLocals == <<entryDetected, exitDetected>>
sensorVars == <<envVars, sensorLocals, dropped>>
eventQueues == <<entryQueue, exitQueue, eventLog>>
history == <<servoCmds, entriesDequeued, exitsDequeued, phaseOpens, phaseCloses>>
gateVars == <<availableSlots, gateStatus, lcdQueue, mutex, servo, history>>

ledVars == <<greenLed, redLed>>
dhtVars == <<temperature, humidity, dhtH, dhtT>>
clockVars == <<currentTime, currentDate>>
wifiVars == <<wifiConnected, internetConnected, newTime, newDate>>
lcdVars == <<lcdPanel, lcdMsg, timeStr, lcdElapsed>>
webVars == <<json>>
tgVars == <<tgText, tgMsg>>
\* what sensorTask, gateTask and the sensor lines never touch
others == <<started, ledVars, dhtVars, clockVars, wifiVars, lcdVars, webVars, tgVars>>
\* what the other six tasks never write
coreVars == <<availableSlots, gateStatus, eventQueues, servo, history, sensorVars, started>>

vars == <<availableSlots, gateStatus, entryQueue, exitQueue, lcdQueue, mutex, servo,
          entryPin, exitPin, carsLeft, entryDetected, exitDetected, pc, started,
          servoCmds, entriesDequeued, exitsDequeued, phaseOpens, phaseCloses, dropped,
          eventLog,
          raced, greenLed, redLed, temperature, humidity, dhtH, dhtT, currentTime,
          currentDate, wifiConnected, internetConnected, newTime, newDate, lcdPanel,
          lcdMsg, timeStr, lcdElapsed, json, tgText, tgMsg>>

\* ------------------------------------------------------------- primitives
\* xSemaphoreTake succeeding for task t
Take(m, t) == mutex[m] = NoTask /\ mutex' = [mutex EXCEPT ![m] = t]
\* xSemaphoreGive by the owner t
Give(m, t) == mutex[m] = t /\ mutex' = [mutex EXCEPT ![m] = NoTask]
\* mutant: a send that ignores the capacity of the queue
QueueSendUnbounded(q, item, size) == Append(q, item)

\* xQueueSend with a bounded wait: the item is appended unless the queue is
\* still full when the wait ends, and then it is dropped
QueueSend(q, item, size) == IF Len(q) < size THEN Append(q, item) ELSE q

\* task t reads or writes the shared fields fs in this step: a field whose
\* mutex t does not hold is recorded
Access(t, fs) == raced' = raced \cup {<<t, f>> : f \in {g \in fs : mutex[MutexOf(g)] # t}}
NoAccess == UNCHANGED raced

\* task t is at statement l
At(t, l) == t \in started /\ pc[t] = l
Goto(t, l) == pc' = [pc EXCEPT ![t] = l]

FirstStatement(t) ==
    CASE t = "sensor" -> "checkEntry"
      [] t = "gate" -> "recvEntry"
      [] t = "led" -> "takeSlots"
      [] t = "dht" -> "read"
      [] t = "lcd" -> "recv"
      [] t = "web" -> "handleClient"
      [] t = "telegram" -> "getUpdates"
      [] t = "wifi" -> "checkWifi"
      [] t = "setup" -> "lcdClear"

\* the events in the queues were sent, none was received yet
NothingReceived ==
    eventLog = [sent |-> <<Len(entryQueue), Len(exitQueue)>>, got |-> <<<<>>, <<>>>>,
                tried |-> <<"none", "none">>]

\* line 929-934: the banner setup() prints before it creates the tasks
Banner == [line1 |-> <<"FreeRTOS Parking">>, line2 |-> <<"Starting...">>]
\* line 1019-1023: what setup() prints after it has created them
Ready == [line1 |-> <<"System Ready!">>, line2 |-> <<"4/4 Available">>]

\* line 1002-1011: setup() has just created the tasks, each is at its first
\* statement, and setup() is about to run line 1019
SetupRunning ==
    /\ pc = [t \in Processes |-> FirstStatement(t)]
    /\ lcdPanel = Banner
    /\ servo = SERVO_CLOSED_ANGLE

\* line 1026: setup() has run to vTaskDelete(NULL) before any task ran
SetupDone ==
    /\ pc = [t \in Processes |-> IF t = "setup" THEN "deleted" ELSE FirstStatement(t)]
    /\ lcdPanel = Ready
    /\ servo = SERVO_CLOSED_ANGLE

\* line 918: setup() is entered; the panel is blank and the barrier is where
\* it was left when the power went off
PowerOn ==
    /\ pc = [t \in Processes |-> IF t = "setup" THEN "hardware" ELSE FirstStatement(t)]
    /\ lcdPanel = EmptyPanel
    /\ servo \in {SERVO_OPEN_ANGLE, SERVO_CLOSED_ANGLE}

\* the globals of main.cpp line 131-139 and the state setup() leaves behind
Globals ==
    /\ availableSlots = TOTAL_SLOTS
    /\ gateStatus = "Closed"
    /\ lcdQueue = <<>>
    /\ mutex = [m \in Mutexes |-> NoTask]
    /\ entryPin = HIGH
    /\ exitPin = HIGH
    /\ entryDetected = FALSE
    /\ exitDetected = FALSE
    /\ servoCmds = <<>>
    /\ entriesDequeued = 0
    /\ exitsDequeued = 0
    /\ phaseOpens = 0
    /\ phaseCloses = 0
    /\ dropped = <<0, 0>>
    /\ raced = {}
    /\ greenLed = LOW
    /\ redLed = LOW
    /\ temperature = 0
    /\ humidity = 0
    /\ dhtH = 0
    /\ dhtT = 0
    /\ currentTime = "00:00:00"
    /\ currentDate = "2024/01/01"
    /\ internetConnected = FALSE
    /\ newTime = ""
    /\ newDate = ""
    /\ lcdMsg = EnteringMsg
    /\ timeStr = ""
    /\ lcdElapsed = TRUE
    /\ json = <<>>
    /\ tgText = ""
    /\ tgMsg = <<>>

\* sensorTask and gateTask alone; setup() found the WiFi link up or down
\* (line 963-974)
\* line 994-995: both event queues are created empty
Baseline ==
    /\ Globals /\ SetupDone
    /\ entryQueue = <<>> /\ exitQueue = <<>> /\ NothingReceived

Init ==
    /\ Baseline
    /\ wifiConnected \in BOOLEAN
    /\ started = {"sensor", "gate"}
    /\ carsLeft = <<MaxEntryCars, MaxExitCars>>

\* ------------------------------------------------------------ environment
\* a vehicle arrives at (line goes LOW) or leaves (HIGH) the entry sensor
EntryPinChange ==
    /\ entryPin = HIGH => carsLeft[1] > 0
    /\ entryPin' = IF entryPin = HIGH THEN LOW ELSE HIGH
    /\ carsLeft' = IF entryPin = HIGH THEN <<carsLeft[1] - 1, carsLeft[2]>> ELSE carsLeft
    /\ eventLog' = IF entryPin = HIGH THEN [eventLog EXCEPT !.tried[1] = "none"] ELSE eventLog
    /\ UNCHANGED <<gateVars, entryQueue, exitQueue, exitPin, sensorLocals, dropped, pc, others>>
    /\ NoAccess

\* a vehicle arrives at or leaves the exit sensor
ExitPinChange ==
    /\ exitPin = HIGH => carsLeft[2] > 0
    /\ exitPin' = IF exitPin = HIGH THEN LOW ELSE HIGH
    /\ carsLeft' = IF exitPin = HIGH THEN <<carsLeft[1], carsLeft[2] - 1>> ELSE carsLeft
    /\ eventLog' = IF exitPin = HIGH THEN [eventLog EXCEPT !.tried[2] = "none"] ELSE eventLog
    /\ UNCHANGED <<gateVars, entryQueue, exitQueue, entryPin, sensorLocals, dropped, pc, others>>
    /\ NoAccess

\* ------------------------------------------------------------- sensorTask
\* line 406-407: if(digitalRead(IR_ENTRY_PIN) == LOW && !entryDetected)
SensorCheckEntry ==
    /\ At("sensor", "checkEntry")
    /\ IF entryPin = LOW /\ ~entryDetected
         THEN entryDetected' = TRUE /\ Goto("sensor", "sendEntry")
         ELSE entryDetected' = entryDetected /\ Goto("sensor", "clearEntry")
    /\ UNCHANGED <<gateVars, eventQueues, envVars, exitDetected, dropped, others>>
    /\ NoAccess

\* mutant: a dropped event clears the latch, so that the send is tried again
SensorSendEntryRetries ==
    /\ At("sensor", "sendEntry")
    /\ entryQueue' = QueueSend(entryQueue, Stamp(EntryEvent, eventLog.sent[1] + 1),
                               ENTRY_QUEUE_SIZE)
    /\ dropped' = IF entryQueue' = entryQueue
                     THEN <<dropped[1] + 1, dropped[2]>> ELSE dropped
    /\ eventLog' = IF entryQueue' = entryQueue
                      THEN [eventLog EXCEPT !.tried[1] = "dropped"]
                      ELSE [eventLog EXCEPT !.sent[1] = @ + 1, !.tried[1] = "queued"]
    /\ entryDetected' = (entryQueue' # entryQueue)
    /\ Goto("sensor", "checkEntry")
    /\ UNCHANGED <<gateVars, exitQueue, envVars, exitDetected, others>>
    /\ NoAccess

\* line 408-414: xQueueSend(entryQueue, &event, 100 ms), then the 100 ms delay
SensorSendEntry ==
    /\ At("sensor", "sendEntry")
    /\ entryQueue' = QueueSend(entryQueue, Stamp(EntryEvent, eventLog.sent[1] + 1),
                               ENTRY_QUEUE_SIZE)
    /\ dropped' = IF entryQueue' = entryQueue
                     THEN <<dropped[1] + 1, dropped[2]>> ELSE dropped
    /\ eventLog' = IF entryQueue' = entryQueue
                      THEN [eventLog EXCEPT !.tried[1] = "dropped"]
                      ELSE [eventLog EXCEPT !.sent[1] = @ + 1, !.tried[1] = "queued"]
    /\ Goto("sensor", "clearEntry")
    /\ UNCHANGED <<gateVars, exitQueue, envVars, sensorLocals, others>>
    /\ NoAccess

\* mutant: the latch is cleared whatever the line reads
SensorClearEntryAlways ==
    /\ At("sensor", "clearEntry")
    /\ entryDetected' = FALSE
    /\ Goto("sensor", "checkExit")
    /\ UNCHANGED <<gateVars, eventQueues, envVars, exitDetected, dropped, others>>
    /\ NoAccess

\* line 416: if(digitalRead(IR_ENTRY_PIN) == HIGH) entryDetected = false
SensorClearEntry ==
    /\ At("sensor", "clearEntry")
    /\ entryDetected' = IF entryPin = HIGH THEN FALSE ELSE entryDetected
    /\ Goto("sensor", "checkExit")
    /\ UNCHANGED <<gateVars, eventQueues, envVars, exitDetected, dropped, others>>
    /\ NoAccess

\* mutant: a vehicle latched at the entry line hides the exit line
SensorCheckExitSuppressed ==
    /\ At("sensor", "checkExit")
    /\ IF exitPin = LOW /\ ~exitDetected /\ ~entryDetected
         THEN exitDetected' = TRUE /\ Goto("sensor", "sendExit")
         ELSE exitDetected' = exitDetected /\ Goto("sensor", "clearExit")
    /\ UNCHANGED <<gateVars, eventQueues, envVars, entryDetected, dropped, others>>
    /\ NoAccess

\* line 419-420: if(digitalRead(IR_EXIT_PIN) == LOW && !exitDetected)
SensorCheckExit ==
    /\ At("sensor", "checkExit")
    /\ IF exitPin = LOW /\ ~exitDetected
         THEN exitDetected' = TRUE /\ Goto("sensor", "sendExit")
         ELSE exitDetected' = exitDetected /\ Goto("sensor", "clearExit")
    /\ UNCHANGED <<gateVars, eventQueues, envVars, entryDetected, dropped, others>>
    /\ NoAccess

\* line 421-427: xQueueSend(exitQueue, &event, 100 ms), then the 100 ms delay
SensorSendExit ==
    /\ At("sensor", "sendExit")
    /\ exitQueue' = QueueSend(exitQueue, Stamp(ExitEvent, eventLog.sent[2] + 1),
                              EXIT_QUEUE_SIZE)
    /\ dropped' = IF exitQueue' = exitQueue
                     THEN <<dropped[1], dropped[2] + 1>> ELSE dropped
    /\ eventLog' = IF exitQueue' = exitQueue
                      THEN [eventLog EXCEPT !.tried[2] = "dropped"]
                      ELSE [eventLog EXCEPT !.sent[2] = @ + 1, !.tried[2] = "queued"]
    /\ Goto("sensor", "clearExit")
    /\ UNCHANGED <<gateVars, entryQueue, envVars, sensorLocals, others>>
    /\ NoAccess

\* line 429-431: clear the latch, then vTaskDelay(50 ms) and loop
SensorClearExit ==
    /\ At("sensor", "clearExit")
    /\ exitDetected' = IF exitPin = HIGH THEN FALSE ELSE exitDetected
    /\ Goto("sensor", "checkEntry")
    /\ UNCHANGED <<gateVars, eventQueues, envVars, entryDetected, dropped, others>>
    /\ NoAccess

sensorTask ==
    \/ SensorCheckEntry \/ SensorSendEntry \/ SensorClearEntry
    \/ SensorCheckExit \/ SensorSendExit \/ SensorClearExit

\* --------------------------------------------------------------- gateTask
\* mutant: xQueuePeek in place of xQueueReceive
GateRecvEntryPeeks ==
    /\ At("gate", "recvEntry")
    /\ IF entryQueue # <<>>
         THEN /\ entryQueue' = entryQueue
              /\ eventLog' = [eventLog EXCEPT !.got[1] = Append(@, Head(entryQueue).seq)]
              /\ servoCmds' = <<>>
              /\ entriesDequeued' = entriesDequeued + 1
              /\ Goto("gate", "takeSlotsCheck")
         ELSE /\ UNCHANGED <<entryQueue, eventLog, servoCmds, entriesDequeued>>
              /\ Goto("gate", "recvExit")
    /\ UNCHANGED <<availableSlots, gateStatus, exitQueue, lcdQueue, mutex, servo,
                   exitsDequeued, phaseOpens, phaseCloses, sensorVars, others>>
    /\ NoAccess

\* line 447: xQueueReceive(entryQueue, &event, 10 ms)
GateRecvEntry ==
    /\ At("gate", "recvEntry")
    /\ IF entryQueue # <<>>
         THEN /\ entryQueue' = Tail(entryQueue)
              /\ eventLog' = [eventLog EXCEPT !.got[1] = Append(@, Head(entryQueue).seq)]
              /\ servoCmds' = <<>>
              /\ entriesDequeued' = entriesDequeued + 1
              /\ Goto("gate", "takeSlotsCheck")
         ELSE /\ UNCHANGED <<entryQueue, eventLog, servoCmds, entriesDequeued>>
              /\ Goto("gate", "recvExit")
    /\ UNCHANGED <<availableSlots, gateStatus, exitQueue, lcdQueue, mutex, servo,
                   exitsDequeued, phaseOpens, phaseCloses, sensorVars, others>>
    /\ NoAccess

\* xSemaphoreTake(slotsMutex, portMAX_DELAY) at statement from
GateTakeSlots(from, to) ==
    /\ At("gate", from)
    /\ Take("slotsMutex", "gate")
    /\ Goto("gate", to)
    /\ UNCHANGED <<availableSlots, gateStatus, eventQueues, lcdQueue, servo, history,
                   sensorVars, others>>
    /\ NoAccess

\* line 448
GateTakeSlotsCheck == GateTakeSlots("takeSlotsCheck", "checkSlots")

\* mutant: the admission test written as availableSlots >= 0
GateCheckSlotsAdmitsFull ==
    /\ At("gate", "checkSlots")
    /\ Give("slotsMutex", "gate")
    /\ IF availableSlots >= 0
         THEN Goto("gate", "takeGateOpenE")
         ELSE Goto("gate", "recvExit")
    /\ UNCHANGED <<availableSlots, gateStatus, eventQueues, lcdQueue, servo, history,
                   sensorVars, others>>
    /\ Access("gate", {"availableSlots"})

\* line 449-452 (admitted) and 495-497 (denied): the mutex is given on both paths
GateCheckSlots ==
    /\ At("gate", "checkSlots")
    /\ Give("slotsMutex", "gate")
    /\ IF availableSlots > 0
         THEN Goto("gate", "takeGateOpenE")
         ELSE Goto("gate", "recvExit")
    /\ UNCHANGED <<availableSlots, gateStatus, eventQueues, lcdQueue, servo, history,
                   sensorVars, others>>
    /\ Access("gate", {"availableSlots"})

\* xSemaphoreTake(gateStatusMutex, portMAX_DELAY) at statement from
GateTakeGateStatus(from, to) ==
    /\ At("gate", from)
    /\ Take("gateStatusMutex", "gate")
    /\ Goto("gate", to)
    /\ UNCHANGED <<availableSlots, gateStatus, eventQueues, lcdQueue, servo, history,
                   sensorVars, others>>
    /\ NoAccess

\* gateStatus = status; xSemaphoreGive(gateStatusMutex)
GateSetStatus(from, status, to) ==
    /\ At("gate", from)
    /\ gateStatus' = status
    /\ phaseOpens' = IF status = "Open" THEN phaseOpens + 1 ELSE phaseOpens
    /\ phaseCloses' = IF status = "Closed" THEN phaseCloses + 1 ELSE phaseCloses
    /\ Give("gateStatusMutex", "gate")
    /\ Goto("gate", to)
    /\ UNCHANGED <<availableSlots, eventQueues, lcdQueue, servo, servoCmds,
                   entriesDequeued, exitsDequeued, sensorVars, others>>
    /\ Access("gate", {"gateStatus"})

\* strcpy(lcdMsg.line1, ...); strcpy(lcdMsg.line2, ...);
\* xQueueSend(lcdQueue, &lcdMsg, 100 ms)
GateSendLcd(from, msg, to) ==
    /\ At("gate", from)
    /\ lcdQueue' = QueueSend(lcdQueue, msg, LCD_QUEUE_SIZE)
    /\ Goto("gate", to)
    /\ UNCHANGED <<availableSlots, gateStatus, eventQueues, mutex, servo, history,
                   sensorVars, others>>
    /\ NoAccess

\* barrierServo.write(angle)
GateServoWrite(from, angle, to) ==
    /\ At("gate", from)
    /\ servo' = angle
    /\ servoCmds' = Append(servoCmds, angle)
    /\ Goto("gate", to)
    /\ UNCHANGED <<availableSlots, gateStatus, eventQueues, lcdQueue, mutex,
                   entriesDequeued, exitsDequeued, phaseOpens, phaseCloses,
                   sensorVars, others>>
    /\ NoAccess

\* line 455
GateTakeGateOpenE == GateTakeGateStatus("takeGateOpenE", "setOpenE")
\* mutant: the entry branch opens the barrier without setting gateStatus
GateSetOpenEStaysClosed == GateSetStatus("setOpenE", "Closed", "sendLcdE")

\* line 456-457
GateSetOpenE == GateSetStatus("setOpenE", "Open", "sendLcdE")
\* line 461-463
GateSendLcdE == GateSendLcd("sendLcdE", EnteringMsg, "openE")
\* mutant: the slot is counted when the barrier opens, and again at the end
GateOpenECountsEarly ==
    /\ At("gate", "openE")
    /\ servo' = SERVO_OPEN_ANGLE
    /\ servoCmds' = Append(servoCmds, SERVO_OPEN_ANGLE)
    /\ availableSlots' = availableSlots - 1
    /\ Goto("gate", "closeE")
    /\ UNCHANGED <<gateStatus, eventQueues, lcdQueue, mutex,
                   entriesDequeued, exitsDequeued, phaseOpens, phaseCloses,
                   sensorVars, others>>
    /\ NoAccess

\* line 467-471: barrierServo.write(0), then the 2000 ms dwell
GateOpenE == GateServoWrite("openE", SERVO_OPEN_ANGLE, "closeE")
\* mutant: the entry branch never writes the close angle
GateCloseEForgotten ==
    /\ At("gate", "closeE")
    /\ Goto("gate", "takeGateCloseE")
    /\ UNCHANGED <<availableSlots, gateStatus, eventQueues, lcdQueue, mutex, servo,
                   history, sensorVars, others>>
    /\ NoAccess

\* line 475: barrierServo.write(90)
GateCloseE == GateServoWrite("closeE", SERVO_CLOSED_ANGLE, "takeGateCloseE")
\* line 478
GateTakeGateCloseE == GateTakeGateStatus("takeGateCloseE", "setClosedE")
\* line 479-480
\* mutant: the entry branch ends before the slot is counted
GateSetClosedESkipsCount == GateSetStatus("setClosedE", "Closed", "recvExit")

GateSetClosedE == GateSetStatus("setClosedE", "Closed", "takeSlotsDec")
\* line 484
GateTakeSlotsDec == GateTakeSlots("takeSlotsDec", "decSlots")

\* mutant: the decrement is forgotten
GateDecSlotsForgotten ==
    /\ At("gate", "decSlots")
    /\ Give("slotsMutex", "gate")
    /\ Goto("gate", "recvExit")
    /\ UNCHANGED <<availableSlots, gateStatus, eventQueues, lcdQueue, servo, history,
                   sensorVars, others>>
    /\ Access("gate", {"availableSlots"})

\* line 485-492: availableSlots--; xSemaphoreGive(slotsMutex)
GateDecSlots ==
    /\ At("gate", "decSlots")
    /\ availableSlots' = availableSlots - 1
    /\ Give("slotsMutex", "gate")
    /\ Goto("gate", "recvExit")
    /\ UNCHANGED <<gateStatus, eventQueues, lcdQueue, servo, history, sensorVars, others>>
    /\ Access("gate", {"availableSlots"})

\* mutant: the exit queue is polled only when the entry queue is empty
GateRecvExitAfterEntries ==
    /\ At("gate", "recvExit")
    /\ IF exitQueue # <<>> /\ entryQueue = <<>>
         THEN /\ exitQueue' = Tail(exitQueue)
              /\ eventLog' = [eventLog EXCEPT !.got[2] = Append(@, Head(exitQueue).seq)]
              /\ servoCmds' = <<>>
              /\ exitsDequeued' = exitsDequeued + 1
              /\ Goto("gate", "takeGateOpenX")
         ELSE /\ UNCHANGED <<exitQueue, eventLog, servoCmds, exitsDequeued>>
              /\ Goto("gate", "recvEntry")
    /\ UNCHANGED <<availableSlots, gateStatus, entryQueue, lcdQueue, mutex, servo,
                   entriesDequeued, phaseOpens, phaseCloses, sensorVars, others>>
    /\ NoAccess

\* line 503: xQueueReceive(exitQueue, &event, 10 ms); line 546 when nothing came
GateRecvExit ==
    /\ At("gate", "recvExit")
    /\ IF exitQueue # <<>>
         THEN /\ exitQueue' = Tail(exitQueue)
              /\ eventLog' = [eventLog EXCEPT !.got[2] = Append(@, Head(exitQueue).seq)]
              /\ servoCmds' = <<>>
              /\ exitsDequeued' = exitsDequeued + 1
              /\ Goto("gate", "takeGateOpenX")
         ELSE /\ UNCHANGED <<exitQueue, eventLog, servoCmds, exitsDequeued>>
              /\ Goto("gate", "recvEntry")
    /\ UNCHANGED <<availableSlots, gateStatus, entryQueue, lcdQueue, mutex, servo,
                   entriesDequeued, phaseOpens, phaseCloses, sensorVars, others>>
    /\ NoAccess

\* line 507
GateTakeGateOpenX == GateTakeGateStatus("takeGateOpenX", "setOpenX")
\* line 508-509
GateSetOpenX == GateSetStatus("setOpenX", "Open", "sendLcdX")
\* line 513-515
GateSendLcdX == GateSendLcd("sendLcdX", ExitingMsg, "openX")
\* mutant: the barrier is not opened for an exit event that finds no car
\* counted in the lot
GateOpenXDenied ==
    /\ At("gate", "openX")
    /\ IF availableSlots < TOTAL_SLOTS
         THEN /\ servo' = SERVO_OPEN_ANGLE
              /\ servoCmds' = Append(servoCmds, SERVO_OPEN_ANGLE)
              /\ Goto("gate", "closeX")
         ELSE /\ UNCHANGED <<servo, servoCmds>>
              /\ Goto("gate", "takeGateCloseX")
    /\ UNCHANGED <<availableSlots, gateStatus, eventQueues, lcdQueue, mutex,
                   entriesDequeued, exitsDequeued, phaseOpens, phaseCloses,
                   sensorVars, others>>
    /\ NoAccess

\* line 519-523
GateOpenX == GateServoWrite("openX", SERVO_OPEN_ANGLE, "closeX")
\* mutant: the close command repeats the open angle
GateCloseXOpenAngle == GateServoWrite("closeX", SERVO_OPEN_ANGLE, "takeGateCloseX")
\* line 527
GateCloseX == GateServoWrite("closeX", SERVO_CLOSED_ANGLE, "takeGateCloseX")
\* line 530
GateTakeGateCloseX == GateTakeGateStatus("takeGateCloseX", "setClosedX")
\* mutant: the phase is not set back after an exit
GateSetClosedXStaysOpen == GateSetStatus("setClosedX", "Open", "takeSlotsInc")
\* line 531-532
GateSetClosedX == GateSetStatus("setClosedX", "Closed", "takeSlotsInc")
\* line 536
GateTakeSlotsInc == GateTakeSlots("takeSlotsInc", "incSlots")

\* mutant: the increment without its guard
GateIncSlotsUnguarded ==
    /\ At("gate", "incSlots")
    /\ availableSlots' = availableSlots + 1
    /\ Give("slotsMutex", "gate")
    /\ Goto("gate", "recvEntry")
    /\ UNCHANGED <<gateStatus, eventQueues, lcdQueue, servo, history, sensorVars, others>>
    /\ Access("gate", {"availableSlots"})

\* line 537-546: if(availableSlots < TOTAL_SLOTS) availableSlots++; give; delay
GateIncSlots ==
    /\ At("gate", "incSlots")
    /\ availableSlots' = IF availableSlots < TOTAL_SLOTS
                           THEN availableSlots + 1 ELSE availableSlots
    /\ Give("slotsMutex", "gate")
    /\ Goto("gate", "recvEntry")
    /\ UNCHANGED <<gateStatus, eventQueues, lcdQueue, servo, history, sensorVars, others>>
    /\ Access("gate", {"availableSlots"})

gateEntry ==
    \/ GateRecvEntry \/ GateTakeSlotsCheck \/ GateCheckSlots
    \/ GateTakeGateOpenE \/ GateSetOpenE \/ GateSendLcdE \/ GateOpenE \/ GateCloseE
    \/ GateTakeGateCloseE \/ GateSetClosedE \/ GateTakeSlotsDec \/ GateDecSlots

gateExit ==
    \/ GateRecvExit \/ GateTakeGateOpenX \/ GateSetOpenX \/ GateSendLcdX
    \/ GateOpenX \/ GateCloseX \/ GateTakeGateCloseX \/ GateSetClosedX
    \/ GateTakeSlotsInc \/ GateIncSlots

gateTask == gateEntry \/ gateExit

\* ---------------------------------------------------------------- ledTask
ledRest == <<coreVars, lcdQueue, dhtVars, clockVars, wifiVars, lcdVars, webVars, tgVars>>

\* line 561: xSemaphoreTake(slotsMutex, portMAX_DELAY)
LedTakeSlots ==
    /\ At("led", "takeSlots")
    /\ Take("slotsMutex", "led")
    /\ Goto("led", "writeGreen")
    /\ UNCHANGED <<ledVars, ledRest>>
    /\ NoAccess

\* line 563: digitalWrite(GREEN_LED_PIN, availableSlots > 0 ? HIGH : LOW)
LedWriteGreen ==
    /\ At("led", "writeGreen")
    /\ greenLed' = IF availableSlots > 0 THEN HIGH ELSE LOW
    /\ Goto("led", "writeRed")
    /\ UNCHANGED <<redLed, mutex, ledRest>>
    /\ Access("led", {"availableSlots"})

\* line 564-567: digitalWrite(RED_LED_PIN, ...); give; vTaskDelay(100 ms)
LedWriteRed ==
    /\ At("led", "writeRed")
    /\ redLed' = IF availableSlots > 0 THEN LOW ELSE HIGH
    /\ Give("slotsMutex", "led")
    /\ Goto("led", "takeSlots")
    /\ UNCHANGED <<greenLed, ledRest>>
    /\ Access("led", {"availableSlots"})

ledTask == LedTakeSlots \/ LedWriteGreen \/ LedWriteRed

\* ---------------------------------------------------------------- dhtTask
dhtRest == <<coreVars, lcdQueue, ledVars, clockVars, wifiVars, lcdVars, webVars, tgVars>>

\* mutant: if (!isnan(h) || !isnan(t)) in place of &&
DhtReadEitherValid ==
    /\ At("dht", "read")
    /\ \E h \in HumReadings, t \in TempReadings :
         /\ dhtH' = h
         /\ dhtT' = t
         /\ IF h # NaN \/ t # NaN
              THEN Goto("dht", "takeDht")
              ELSE Goto("dht", "read")
    /\ UNCHANGED <<temperature, humidity, mutex, dhtRest>>
    /\ NoAccess

\* line 583-586 and 600-604: one sample; an invalid one is logged and the
\* task sleeps until the next sample
DhtRead ==
    /\ At("dht", "read")
    /\ \E h \in HumReadings, t \in TempReadings :
         /\ dhtH' = h
         /\ dhtT' = t
         /\ IF h # NaN /\ t # NaN
              THEN Goto("dht", "takeDht")
              ELSE Goto("dht", "read")
    /\ UNCHANGED <<temperature, humidity, mutex, dhtRest>>
    /\ NoAccess

\* line 587: xSemaphoreTake(dhtMutex, portMAX_DELAY)
DhtTake ==
    /\ At("dht", "takeDht")
    /\ Take("dhtMutex", "dht")
    /\ Goto("dht", "storeTemp")
    /\ UNCHANGED <<dhtVars, dhtRest>>
    /\ NoAccess

\* line 588: temperature = t
DhtStoreTemp ==
    /\ At("dht", "storeTemp")
    /\ temperature' = dhtT
    /\ Goto("dht", "storeHum")
    /\ UNCHANGED <<humidity, dhtH, dhtT, mutex, dhtRest>>
    /\ Access("dht", {"temperature"})

\* line 589-604: humidity = h; give; vTaskDelay(2000 ms)
DhtStoreHum ==
    /\ At("dht", "storeHum")
    /\ humidity' = dhtH
    /\ Give("dhtMutex", "dht")
    /\ Goto("dht", "read")
    /\ UNCHANGED <<temperature, dhtH, dhtT, dhtRest>>
    /\ Access("dht", {"humidity"})

dhtTask == DhtRead \/ DhtTake \/ DhtStoreTemp \/ DhtStoreHum

\* --------------------------------------------------------------- wifiTask
wifiRest == <<coreVars, lcdQueue, ledVars, dhtVars, lcdVars, webVars, tgVars>>

\* line 349-351: when the check interval has elapsed,
\* wifiConnected = (WiFi.status() == WL_CONNECTED)
WifiCheck ==
    /\ At("wifi", "checkWifi")
    /\ \/ /\ \E status \in BOOLEAN : wifiConnected' = status
          /\ Goto("wifi", "setInternet")
       \/ /\ UNCHANGED wifiConnected
          /\ Goto("wifi", "checkTime")
    /\ UNCHANGED <<internetConnected, newTime, newDate, clockVars, mutex, wifiRest>>
    /\ NoAccess

\* line 362-368: internetConnected = checkInternetConnection(), or false
WifiSetInternet ==
    /\ At("wifi", "setInternet")
    /\ IF wifiConnected
         THEN \E reachable \in BOOLEAN : internetConnected' = reachable
         ELSE internetConnected' = FALSE
    /\ Goto("wifi", "checkTime")
    /\ UNCHANGED <<wifiConnected, newTime, newDate, clockVars, mutex, wifiRest>>
    /\ NoAccess

\* line 372-375 and 384-387: when the update interval has elapsed and the
\* link is up, fetch the time and the date; otherwise sleep and loop
WifiCheckTime ==
    /\ At("wifi", "checkTime")
    /\ \/ /\ wifiConnected
          /\ \E timeinfo \in ClockSamples : newTime' = timeinfo[1] /\ newDate' = timeinfo[2]
          /\ Goto("wifi", "takeTime")
       \/ /\ UNCHANGED <<newTime, newDate>>
          /\ Goto("wifi", "checkWifi")
    /\ UNCHANGED <<wifiConnected, internetConnected, clockVars, mutex, wifiRest>>
    /\ NoAccess

\* mutant: the result of xSemaphoreTake is not looked at
WifiTakeTimeUnchecked ==
    /\ At("wifi", "takeTime")
    /\ IF mutex["timeMutex"] = NoTask
         THEN Take("timeMutex", "wifi")
         ELSE UNCHANGED mutex
    /\ Goto("wifi", "storeTime")
    /\ UNCHANGED <<wifiVars, clockVars, wifiRest>>
    /\ NoAccess

\* line 377: xSemaphoreTake(timeMutex, 100 ms); on a timeout the update is
\* skipped (line 384-387)
WifiTakeTime ==
    /\ At("wifi", "takeTime")
    /\ IF mutex["timeMutex"] = NoTask
         THEN Take("timeMutex", "wifi") /\ Goto("wifi", "storeTime")
         ELSE UNCHANGED mutex /\ Goto("wifi", "checkWifi")
    /\ UNCHANGED <<wifiVars, clockVars, wifiRest>>
    /\ NoAccess

\* line 378: currentTime = newTime
WifiStoreTime ==
    /\ At("wifi", "storeTime")
    /\ currentTime' = newTime
    /\ Goto("wifi", "storeDate")
    /\ UNCHANGED <<currentDate, wifiVars, mutex, wifiRest>>
    /\ Access("wifi", {"currentTime"})

\* line 379-387: currentDate = newDate; give; vTaskDelay(1000 ms)
WifiStoreDate ==
    /\ At("wifi", "storeDate")
    /\ currentDate' = newDate
    /\ Give("timeMutex", "wifi")
    /\ Goto("wifi", "checkWifi")
    /\ UNCHANGED <<currentTime, wifiVars, wifiRest>>
    /\ Access("wifi", {"currentDate"})

wifiTask ==
    \/ WifiCheck \/ WifiSetInternet \/ WifiCheckTime
    \/ WifiTakeTime \/ WifiStoreTime \/ WifiStoreDate

\* ---------------------------------------------------------------- lcdTask
lcdRest == <<coreVars, ledVars, dhtVars, clockVars, wifiVars, webVars, tgVars>>

\* the tokens ts printed at the cursor on line1 or line2 of the panel
PanelPrint(panel, line, ts) ==
    IF line = 1 THEN [panel EXCEPT !.line1 = @ \o ts]
                ELSE [panel EXCEPT !.line2 = @ \o ts]

\* line 621 and 633: a message in lcdQueue is taken; without one, the
\* default display is due once updateInterval has elapsed; else line 667
LcdRecv ==
    /\ At("lcd", "recv")
    /\ IF lcdQueue # <<>>
         THEN /\ lcdMsg' = Head(lcdQueue)
              /\ lcdQueue' = Tail(lcdQueue)
              /\ Goto("lcd", "takeLcdMsg")
         ELSE /\ UNCHANGED <<lcdMsg, lcdQueue>>
              /\ IF lcdElapsed THEN Goto("lcd", "takeLcdDefault")
                               ELSE Goto("lcd", "sleep")
    /\ UNCHANGED <<lcdPanel, timeStr, lcdElapsed, mutex, lcdRest>>
    /\ NoAccess

\* line 667: vTaskDelay(50 ms); updateInterval may run out meanwhile
LcdSleep ==
    /\ At("lcd", "sleep")
    /\ \E e \in BOOLEAN : lcdElapsed' = e
    /\ Goto("lcd", "recv")
    /\ UNCHANGED <<lcdPanel, lcdMsg, timeStr, lcdQueue, mutex, lcdRest>>
    /\ NoAccess

\* line 622: xSemaphoreTake(lcdMutex, portMAX_DELAY)
LcdTakeForMsg ==
    /\ At("lcd", "takeLcdMsg")
    /\ Take("lcdMutex", "lcd")
    /\ Goto("lcd", "showMsg")
    /\ UNCHANGED <<lcdVars, lcdQueue, lcdRest>>
    /\ NoAccess

\* mutant: lastUpdate is not refreshed when a message is shown
LcdShowMsgKeepsTimer ==
    /\ At("lcd", "showMsg")
    /\ lcdPanel' = PanelPrint(PanelPrint(EmptyPanel, 1, <<lcdMsg.line1>>), 2, <<lcdMsg.line2>>)
    /\ lcdElapsed' = TRUE
    /\ Give("lcdMutex", "lcd")
    /\ Goto("lcd", "sleep")
    /\ UNCHANGED <<lcdMsg, timeStr, lcdQueue, lcdRest>>
    /\ NoAccess

\* line 623-630: clear, print both lines, give, lastUpdate = now
LcdShowMsg ==
    /\ At("lcd", "showMsg")
    /\ lcdPanel' = PanelPrint(PanelPrint(EmptyPanel, 1, <<lcdMsg.line1>>), 2, <<lcdMsg.line2>>)
    /\ lcdElapsed' = FALSE
    /\ Give("lcdMutex", "lcd")
    /\ Goto("lcd", "sleep")
    /\ UNCHANGED <<lcdMsg, timeStr, lcdQueue, lcdRest>>
    /\ NoAccess

\* line 634-639: xSemaphoreTake(lcdMutex, portMAX_DELAY); lcd.clear()
LcdTakeForDefault ==
    /\ At("lcd", "takeLcdDefault")
    /\ Take("lcdMutex", "lcd")
    /\ lcdPanel' = EmptyPanel
    /\ timeStr' = ""
    /\ Goto("lcd", "takeTime")
    /\ UNCHANGED <<lcdMsg, lcdElapsed, lcdQueue, lcdRest>>
    /\ NoAccess

\* line 640: xSemaphoreTake(timeMutex, 50 ms), lcdMutex held
LcdTakeTime ==
    /\ At("lcd", "takeTime")
    /\ IF mutex["timeMutex"] = NoTask
         THEN Take("timeMutex", "lcd") /\ Goto("lcd", "readTime")
         ELSE UNCHANGED mutex /\ Goto("lcd", "printTime")
    /\ UNCHANGED <<lcdVars, lcdQueue, lcdRest>>
    /\ NoAccess

\* line 641-642: timeStr = currentTime; give
LcdReadTime ==
    /\ At("lcd", "readTime")
    /\ timeStr' = currentTime
    /\ Give("timeMutex", "lcd")
    /\ Goto("lcd", "printTime")
    /\ UNCHANGED <<lcdPanel, lcdMsg, lcdElapsed, lcdQueue, lcdRest>>
    /\ Access("lcd", {"currentTime"})

\* line 644-645: lcd.print(timeStr); lcd.print(" ")
LcdPrintTime ==
    /\ At("lcd", "printTime")
    /\ lcdPanel' = PanelPrint(lcdPanel, 1, <<timeStr, " ">>)
    /\ Goto("lcd", "takeSlots")
    /\ UNCHANGED <<lcdMsg, timeStr, lcdElapsed, lcdQueue, mutex, lcdRest>>
    /\ NoAccess

\* line 647: xSemaphoreTake(slotsMutex, portMAX_DELAY), lcdMutex held
LcdTakeSlots ==
    /\ At("lcd", "takeSlots")
    /\ Take("slotsMutex", "lcd")
    /\ Goto("lcd", "printSlots")
    /\ UNCHANGED <<lcdVars, lcdQueue, lcdRest>>
    /\ NoAccess

\* mutant: slotsMutex is never given back by the default render
LcdPrintSlotsNoGive ==
    /\ At("lcd", "printSlots")
    /\ lcdPanel' = PanelPrint(PanelPrint(lcdPanel, 1, IntToStr(availableSlots) \o <<"/">>
                                              \o IntToStr(TOTAL_SLOTS)),
                         2, <<"Gate:">>)
    /\ mutex["slotsMutex"] = "lcd"
    /\ Goto("lcd", "takeGate")
    /\ UNCHANGED <<lcdMsg, timeStr, lcdElapsed, lcdQueue, mutex, lcdRest>>
    /\ Access("lcd", {"availableSlots"})

\* line 648-656: lcd.print(availableSlots); give; then "/", TOTAL_SLOTS
\* and, on line 2, "Gate:"
LcdPrintSlots ==
    /\ At("lcd", "printSlots")
    /\ lcdPanel' = PanelPrint(PanelPrint(lcdPanel, 1, IntToStr(availableSlots) \o <<"/">>
                                              \o IntToStr(TOTAL_SLOTS)),
                         2, <<"Gate:">>)
    /\ Give("slotsMutex", "lcd")
    /\ Goto("lcd", "takeGate")
    /\ UNCHANGED <<lcdMsg, timeStr, lcdElapsed, lcdQueue, lcdRest>>
    /\ Access("lcd", {"availableSlots"})

\* line 657: xSemaphoreTake(gateStatusMutex, portMAX_DELAY), lcdMutex held
LcdTakeGate ==
    /\ At("lcd", "takeGate")
    /\ Take("gateStatusMutex", "lcd")
    /\ Goto("lcd", "printGate")
    /\ UNCHANGED <<lcdVars, lcdQueue, lcdRest>>
    /\ NoAccess

\* line 658-659: lcd.print(gateStatus); give
LcdPrintGate ==
    /\ At("lcd", "printGate")
    /\ lcdPanel' = PanelPrint(lcdPanel, 2, <<gateStatus>>)
    /\ Give("gateStatusMutex", "lcd")
    /\ Goto("lcd", "giveLcd")
    /\ UNCHANGED <<lcdMsg, timeStr, lcdElapsed, lcdQueue, lcdRest>>
    /\ Access("lcd", {"gateStatus"})

\* line 662-664: xSemaphoreGive(lcdMutex); lastUpdate = now
LcdGive ==
    /\ At("lcd", "giveLcd")
    /\ Give("lcdMutex", "lcd")
    /\ lcdElapsed' = FALSE
    /\ Goto("lcd", "sleep")
    /\ UNCHANGED <<lcdPanel, lcdMsg, timeStr, lcdQueue, lcdRest>>
    /\ NoAccess

lcdTask ==
    \/ LcdRecv \/ LcdSleep \/ LcdTakeForMsg \/ LcdShowMsg
    \/ LcdTakeForDefault \/ LcdTakeTime \/ LcdReadTime \/ LcdPrintTime
    \/ LcdTakeSlots \/ LcdPrintSlots \/ LcdTakeGate \/ LcdPrintGate \/ LcdGive

\* ------------------------------------------- webServerTask and handleData
webRest == <<coreVars, lcdQueue, ledVars, dhtVars, clockVars, wifiVars, lcdVars, tgVars>>

\* line 679 and 768: server.handleClient() dispatches a GET /data request
\* to handleData, which starts with json = "{"
WebHandleClient ==
    /\ At("web", "handleClient")
    /\ json' = <<>>
    /\ Goto("web", "takeSlots")
    /\ UNCHANGED <<mutex, webRest>>
    /\ NoAccess

\* xSemaphoreTake(m, portMAX_DELAY) in handleData
WebTake(from, m, to) ==
    /\ At("web", from)
    /\ Take(m, "web")
    /\ Goto("web", to)
    /\ UNCHANGED <<json, webRest>>
    /\ NoAccess

\* line 770
WebTakeSlots == WebTake("takeSlots", "slotsMutex", "readSlots")

\* line 771: "available"
WebReadSlots ==
    /\ At("web", "readSlots")
    /\ json' = Append(json, <<"available", availableSlots>>)
    /\ Goto("web", "readOccupied")
    /\ UNCHANGED <<mutex, webRest>>
    /\ Access("web", {"availableSlots"})

\* mutant: the literal 5 in place of TOTAL_SLOTS
WebReadOccupiedWrongTotal ==
    /\ At("web", "readOccupied")
    /\ json' = Append(json, <<"occupied", ENTRY_QUEUE_SIZE - availableSlots>>)
    /\ Give("slotsMutex", "web")
    /\ Goto("web", "takeGate")
    /\ UNCHANGED webRest
    /\ Access("web", {"availableSlots"})

\* line 772-773: "occupied", from a second read of availableSlots, then give
WebReadOccupied ==
    /\ At("web", "readOccupied")
    /\ json' = Append(json, <<"occupied", TOTAL_SLOTS - availableSlots>>)
    /\ Give("slotsMutex", "web")
    /\ Goto("web", "takeGate")
    /\ UNCHANGED webRest
    /\ Access("web", {"availableSlots"})

\* line 776
WebTakeGate == WebTake("takeGate", "gateStatusMutex", "readGate")

\* mutant: gateStatusMutex is not given back before the next take
WebReadGateKeepsLock ==
    /\ At("web", "readGate")
    /\ json' = Append(json, <<"gate", gateStatus>>)
    /\ mutex["gateStatusMutex"] = "web"
    /\ Goto("web", "takeDht")
    /\ UNCHANGED <<mutex, webRest>>
    /\ Access("web", {"gateStatus"})

\* line 777-778: "gate", then give
WebReadGate ==
    /\ At("web", "readGate")
    /\ json' = Append(json, <<"gate", gateStatus>>)
    /\ Give("gateStatusMutex", "web")
    /\ Goto("web", "takeDht")
    /\ UNCHANGED webRest
    /\ Access("web", {"gateStatus"})

\* line 781
WebTakeDht == WebTake("takeDht", "dhtMutex", "readDht")

\* mutant: the reading is consumed (humidity = 0 after it is reported)
WebReadDhtClears ==
    /\ At("web", "readDht")
    /\ json' = json \o <<<<"temperature", temperature>>, <<"humidity", humidity>>>>
    /\ humidity' = 0
    /\ Give("dhtMutex", "web")
    /\ Goto("web", "takeTime")
    /\ UNCHANGED <<coreVars, lcdQueue, ledVars, temperature, dhtH, dhtT, clockVars,
                   wifiVars, lcdVars, tgVars>>
    /\ Access("web", {"temperature", "humidity"})

\* line 782-784: "temperature" and "humidity" with one decimal, then give
WebReadDht ==
    /\ At("web", "readDht")
    /\ json' = json \o <<<<"temperature", temperature>>, <<"humidity", humidity>>>>
    /\ Give("dhtMutex", "web")
    /\ Goto("web", "takeTime")
    /\ UNCHANGED webRest
    /\ Access("web", {"temperature", "humidity"})

\* line 787: xSemaphoreTake(timeMutex, 50 ms); on a timeout "time" and
\* "date" are left out
WebTakeTime ==
    /\ At("web", "takeTime")
    /\ IF mutex["timeMutex"] = NoTask
         THEN Take("timeMutex", "web") /\ Goto("web", "readTime")
         ELSE UNCHANGED mutex /\ Goto("web", "readWifi")
    /\ UNCHANGED <<json, webRest>>
    /\ NoAccess

\* line 788-790: "time" and "date", then give
WebReadTime ==
    /\ At("web", "readTime")
    /\ json' = json \o <<<<"time", currentTime>>, <<"date", currentDate>>>>
    /\ Give("timeMutex", "web")
    /\ Goto("web", "readWifi")
    /\ UNCHANGED webRest
    /\ Access("web", {"currentTime", "currentDate"})

\* line 793: "wifi"
WebReadWifi ==
    /\ At("web", "readWifi")
    /\ json' = Append(json, <<"wifi", wifiConnected>>)
    /\ Goto("web", "readInternet")
    /\ UNCHANGED <<mutex, webRest>>
    /\ NoAccess

\* line 794-795: "internet" and "uptime"
WebReadInternet ==
    /\ At("web", "readInternet")
    /\ json' = json \o <<<<"internet", internetConnected>>, <<"uptime", "millis() / 1000">>>>
    /\ Goto("web", "send")
    /\ UNCHANGED <<mutex, webRest>>
    /\ NoAccess

\* line 797-799 and 680: server.send(200, "application/json", json); the
\* handler returns and the task sleeps 10 ms
WebSend ==
    /\ At("web", "send")
    /\ json' = <<>>
    /\ Goto("web", "handleClient")
    /\ UNCHANGED <<mutex, webRest>>
    /\ NoAccess

webServerTask ==
    \/ WebHandleClient \/ WebTakeSlots \/ WebReadSlots \/ WebReadOccupied \/ WebTakeGate \/ WebReadGate
    \/ WebTakeDht \/ WebReadDht \/ WebTakeTime \/ WebReadTime
    \/ WebReadWifi \/ WebReadInternet \/ WebSend

\* ----------------------------------------------------------- telegramTask
tgRest == <<coreVars, lcdQueue, ledVars, dhtVars, clockVars, wifiVars, lcdVars, webVars>>

\* the statement a command starts with (line 700-737)
TgFirst(text) ==
    CASE text = "/start" -> "sendMessage"
      [] text = "/status" -> "takeSlots"
      [] text = "/time" -> "takeTime"
      [] text = "/temp" -> "takeDht"
      [] text = "/all" -> "takeTime"

\* line 692-738: bot.getUpdates() delivers a message; its command selects
\* the reply, whose heading is put in msg
TgGetUpdates ==
    /\ At("telegram", "getUpdates")
    /\ \E text \in Commands :
         /\ tgText' = text
         /\ tgMsg' = <<text>>
         /\ Goto("telegram", TgFirst(text))
    /\ UNCHANGED <<mutex, tgRest>>
    /\ NoAccess

\* xSemaphoreTake(m, portMAX_DELAY) in telegramTask
TgTake(from, m, to) ==
    /\ At("telegram", from)
    /\ Take(m, "telegram")
    /\ Goto("telegram", to)
    /\ UNCHANGED <<tgVars, tgRest>>
    /\ NoAccess

\* line 721 and 739: xSemaphoreTake(timeMutex, 50 ms); on a timeout the
\* date and the time are left out
TgTakeTime ==
    /\ At("telegram", "takeTime")
    /\ IF mutex["timeMutex"] = NoTask
         THEN Take("timeMutex", "telegram") /\ Goto("telegram", "readTime")
         ELSE /\ UNCHANGED mutex
              /\ Goto("telegram", IF tgText = "/all" THEN "takeSlots" ELSE "sendMessage")
    /\ UNCHANGED <<tgVars, tgRest>>
    /\ NoAccess

\* line 722-724 and 740-741: date and time, then give
TgReadTime ==
    /\ At("telegram", "readTime")
    /\ tgMsg' = tgMsg \o <<currentDate, currentTime>>
    /\ Give("timeMutex", "telegram")
    /\ Goto("telegram", IF tgText = "/all" THEN "takeSlots" ELSE "sendMessage")
    /\ UNCHANGED <<tgText, tgRest>>
    /\ Access("telegram", {"currentTime", "currentDate"})

\* line 711 and 743
TgTakeSlots == TgTake("takeSlots", "slotsMutex", "readSlots")

\* mutant: if(availableSlots = 0) in place of if(availableSlots == 0)
TgReadSlotsAssigns ==
    /\ At("telegram", "readSlots")
    /\ tgMsg' = tgMsg \o IntToStr(availableSlots) \o <<"/">> \o IntToStr(TOTAL_SLOTS)
                      \o (IF tgText = "/status" THEN <<"OK">> ELSE <<>>)
    /\ availableSlots' = IF tgText = "/status" THEN 0 ELSE availableSlots
    /\ Give("slotsMutex", "telegram")
    /\ Goto("telegram", IF tgText = "/all" THEN "takeDht" ELSE "sendMessage")
    /\ UNCHANGED <<tgText, gateStatus, eventQueues, servo, history, sensorVars, started,
                   lcdQueue, ledVars, dhtVars, clockVars, wifiVars, lcdVars, webVars>>
    /\ Access("telegram", {"availableSlots"})

\* line 712-715 and 744-745: available/total (and, for /status, the FULL
\* mark when availableSlots == 0), then give
TgReadSlots ==
    /\ At("telegram", "readSlots")
    /\ tgMsg' = tgMsg \o IntToStr(availableSlots) \o <<"/">> \o IntToStr(TOTAL_SLOTS)
                      \o (IF tgText = "/status"
                            THEN IF availableSlots = 0 THEN <<"FULL">> ELSE <<"OK">>
                            ELSE <<>>)
    /\ Give("slotsMutex", "telegram")
    /\ Goto("telegram", IF tgText = "/all" THEN "takeDht" ELSE "sendMessage")
    /\ UNCHANGED <<tgText, tgRest>>
    /\ Access("telegram", {"availableSlots"})

\* line 730 and 747
TgTakeDht == TgTake("takeDht", "dhtMutex", "readDht")

\* line 731-733 and 748-750: temperature and humidity, then give
TgReadDht ==
    /\ At("telegram", "readDht")
    /\ tgMsg' = tgMsg \o <<"Temp", temperature, "Humidity", humidity>>
    /\ Give("dhtMutex", "telegram")
    /\ Goto("telegram", "sendMessage")
    /\ UNCHANGED <<tgText, tgRest>>
    /\ Access("telegram", {"temperature", "humidity"})

\* bot.sendMessage(chat_id, msg, "Markdown"); next message, or line 756
TgSendMessage ==
    /\ At("telegram", "sendMessage")
    /\ tgMsg' = <<>>
    /\ tgText' = ""
    /\ Goto("telegram", "getUpdates")
    /\ UNCHANGED <<mutex, tgRest>>
    /\ NoAccess

telegramTask ==
    \/ TgGetUpdates \/ TgTakeTime \/ TgReadTime \/ TgTakeSlots \/ TgReadSlots
    \/ TgTakeDht \/ TgReadDht \/ TgSendMessage

\* ----------------------------------------------- setup() up to line 1011
bootRest == <<availableSlots, gateStatus, eventQueues, lcdQueue, mutex, history,
              sensorVars, ledVars, dhtVars, clockVars, internetConnected, newTime,
              newDate, lcdMsg, timeStr, lcdElapsed, webVars, tgVars>>

\* mutant: setup() leaves the barrier at the open angle
SetupHardwareOpenAngle ==
    /\ At("setup", "hardware")
    /\ lcdPanel' = Banner
    /\ servo' = SERVO_OPEN_ANGLE
    /\ Goto("setup", "wifiBegin")
    /\ UNCHANGED <<started, wifiConnected, bootRest>>
    /\ NoAccess

\* line 926-947: the banner on the panel, barrierServo.write(SERVO_CLOSED_ANGLE)
SetupHardware ==
    /\ At("setup", "hardware")
    /\ lcdPanel' = Banner
    /\ servo' = SERVO_CLOSED_ANGLE
    /\ Goto("setup", "wifiBegin")
    /\ UNCHANGED <<started, wifiConnected, bootRest>>
    /\ NoAccess

\* line 953-974: WiFi.begin and up to 20 polls of WiFi.status();
\* wifiConnected is set to what the last poll found
SetupWifi ==
    /\ At("setup", "wifiBegin")
    /\ \E connected \in BOOLEAN : wifiConnected' = connected
    /\ Goto("setup", "createTasks")
    /\ UNCHANGED <<started, lcdPanel, servo, bootRest>>
    /\ NoAccess

\* line 986-1011: the mutexes, the queues and the tasks are created
SetupCreateTasks ==
    /\ At("setup", "createTasks")
    /\ started' = started \cup {"sensor", "gate"}
    /\ Goto("setup", "lcdClear")
    /\ UNCHANGED <<wifiConnected, lcdPanel, servo, bootRest>>
    /\ NoAccess

boot == SetupHardware \/ SetupWifi \/ SetupCreateTasks

\* ------------------------------------------------ setup() after line 1011
setupRest == <<lcdMsg, timeStr, lcdElapsed, lcdQueue, mutex, lcdRest>>

\* line 1019-1020: lcd.clear(); lcd.setCursor(0, 0), without lcdMutex
SetupLcdClear ==
    /\ At("setup", "lcdClear")
    /\ lcdPanel' = EmptyPanel
    /\ Goto("setup", "printReady")
    /\ UNCHANGED setupRest
    /\ NoAccess

\* line 1021-1022: lcd.print("System Ready!"); lcd.setCursor(0, 1)
SetupPrintReady ==
    /\ At("setup", "printReady")
    /\ lcdPanel' = PanelPrint(lcdPanel, 1, Ready.line1)
    /\ Goto("setup", "printAvailable")
    /\ UNCHANGED setupRest
    /\ NoAccess

\* line 1023-1026: lcd.print("4/4 Available"); vTaskDelete(NULL)
SetupPrintAvailable ==
    /\ At("setup", "printAvailable")
    /\ lcdPanel' = PanelPrint(lcdPanel, 2, Ready.line2)
    /\ Goto("setup", "deleted")
    /\ UNCHANGED setupRest
    /\ NoAccess

setup == SetupLcdClear \/ SetupPrintReady \/ SetupPrintAvailable

environment == EntryPinChange \/ ExitPinChange

Next == environment \/ sensorTask \/ gateTask

Spec == Init /\ [][Next]_vars

\* the steps of task t
TaskStep(t) ==
    CASE t = "sensor" -> sensorTask
      [] t = "gate" -> gateTask
      [] t = "led" -> ledTask
      [] t = "dht" -> dhtTask
      [] t = "lcd" -> lcdTask
      [] t = "web" -> webServerTask
      [] t = "telegram" -> telegramTask
      [] t = "wifi" -> wifiTask

\* sensorTask and at most MaxStarted of the other seven tasks run; the
\* state is the one setup() leaves (line 918-1011)
InitTasks ==
    /\ Baseline
    /\ wifiConnected \in BOOLEAN
    /\ \E S \in SUBSET (Tasks \ {"sensor"}) :
         Cardinality(S) <= MaxStarted /\ started = S \cup {"sensor"}
    /\ carsLeft = IF "gate" \in started THEN <<MaxTaskCars, MaxTaskCars>> ELSE <<0, 0>>

NextTasks ==
    \/ environment \/ sensorTask \/ gateTask \/ ledTask \/ dhtTask
    \/ lcdTask \/ webServerTask \/ telegramTask \/ wifiTask

SpecTasks == InitTasks /\ [][NextTasks]_vars

\* setup() has created the tasks and goes on to line 1019 while gateTask and
\* lcdTask run; sensorTask, created first (line 1002), may have queued an
\* event by then
InitSetup ==
    /\ Globals /\ SetupRunning
    /\ entryQueue \in {<<>>, <<Stamp(EntryEvent, 1)>>}
    /\ exitQueue \in {<<>>, <<Stamp(ExitEvent, 1)>>}
    /\ NothingReceived
    /\ wifiConnected \in BOOLEAN
    /\ started = {"setup", "gate", "lcd"}
    /\ carsLeft = <<0, 0>>

NextSetup == setup \/ gateTask \/ lcdTask

SpecSetup == InitSetup /\ [][NextSetup]_vars

\* gateTask, with one event waiting in each queue, and lcdTask; the tick
\* count goes on, so that a vTaskDelay of lcdTask eventually ends with
\* updateInterval elapsed
InitLcdFair ==
    /\ Globals /\ SetupDone
    /\ entryQueue = <<Stamp(EntryEvent, 1)>>
    /\ exitQueue = <<Stamp(ExitEvent, 1)>>
    /\ NothingReceived
    /\ wifiConnected = TRUE
    /\ started = {"gate", "lcd"}
    /\ carsLeft = <<0, 0>>

NextLcd == gateTask \/ lcdTask

SpecLcdFair ==
    /\ InitLcdFair /\ [][NextLcd]_vars
    /\ SF_vars(gateTask) /\ SF_vars(lcdTask) /\ SF_vars(LcdSleep /\ lcdElapsed')

\* the whole of setup(), and sensorTask and gateTask once it has created them
InitBoot ==
    /\ Globals /\ PowerOn
    /\ entryQueue = <<>> /\ exitQueue = <<>> /\ NothingReceived
    /\ wifiConnected = FALSE
    /\ started = {"setup"}
    /\ carsLeft = <<MaxTaskCars, MaxTaskCars>>

NextBoot == environment \/ boot \/ setup \/ sensorTask \/ gateTask

SpecBoot == InitBoot /\ [][NextBoot]_vars

\* ================================================================= claims
Min(a, b) == IF a < b THEN a ELSE b
GateIdle == pc["gate"] \in {"recvEntry", "recvExit"}

\* C1: in every reachable state, whatever the interleaving of the tasks and
\* the sequence of entry and exit presence events,
\* 0 <= availableSlots <= TOTAL_SLOTS.
C1_SlotsInRange == availableSlots \in 0..TOTAL_SLOTS

\* the lot was filled, a further entry was denied, and the one exit event
\* processed found the lot empty of cars (its increment was withheld)
C1_Witness ==
    /\ GateIdle
    /\ availableSlots = 0
    /\ entriesDequeued = TOTAL_SLOTS + 1
    /\ exitsDequeued = 1
    /\ phaseCloses = TOTAL_SLOTS + 1

\* C2: an entry event dequeued while availableSlots = 0 is discarded: from
\* the receive to the end of its processing no angle is written to the servo,
\* availableSlots and gateStatus ("Closed") do not change, nothing is sent to
\* lcdQueue, and the task goes on to poll the exit queue.
DenialWindow ==
    availableSlots = 0 /\ pc["gate"] \in {"recvEntry", "takeSlotsCheck", "checkSlots"}

C2_DeniedEntryDiscarded ==
    [][DenialWindow =>
         /\ gateStatus = "Closed"
         /\ servo = SERVO_CLOSED_ANGLE
         /\ UNCHANGED <<availableSlots, gateStatus, servo, lcdQueue, phaseOpens>>
         /\ pc["gate"] # "recvEntry" => servoCmds = <<>> /\ servoCmds' = <<>>
         /\ pc'["gate"] \in {"recvEntry", "takeSlotsCheck", "checkSlots", "recvExit"}
      ]_vars

\* a fifth entry event has been received and finished with four openings
C2_Witness ==
    /\ pc["gate"] = "recvExit"
    /\ availableSlots = 0
    /\ entriesDequeued = TOTAL_SLOTS + 1
    /\ exitsDequeued = 0
    /\ phaseOpens = TOTAL_SLOTS
    /\ servoCmds = <<>>

\* C3 (as stated): gateStatus is "Closed" whenever gateTask is not processing
\* an event, it is "Open" only between the open command and the close command
\* of the event in flight, and every opening is Closed -> Open -> Closed.
C3_OpenOnlyBetweenCommands ==
    /\ GateIdle => gateStatus = "Closed"
    /\ gateStatus = "Open" => servoCmds = <<SERVO_OPEN_ANGLE>>
    /\ phaseOpens - phaseCloses = IF gateStatus = "Open" THEN 1 ELSE 0

\* the statements at which gateStatus is "Open": line 457-479 and 509-531
OpenWindow ==
    {"sendLcdE", "openE", "closeE", "takeGateCloseE", "setClosedE",
     "sendLcdX", "openX", "closeX", "takeGateCloseX", "setClosedX"}

\* C3 (amended): gateStatus is "Closed" whenever gateTask is not processing
\* an event; it is "Open" exactly from the statement that sets it, just
\* before the open command of an admitted entry or an exit, to the statement
\* that resets it, just after the close command (so the servo is commanded
\* open only while it is "Open"); every opening is Closed -> Open -> Closed.
C3_PhaseFollowsEvent ==
    /\ gateStatus \in {"Closed", "Open"}
    /\ GateIdle => gateStatus = "Closed"
    /\ gateStatus = "Open" <=> pc["gate"] \in OpenWindow
    /\ servo = SERVO_OPEN_ANGLE => gateStatus = "Open"
    /\ phaseOpens - phaseCloses = IF gateStatus = "Open" THEN 1 ELSE 0

\* the gate is in its dwell for an exit, after an entry went through
C3_Witness ==
    /\ pc["gate"] = "closeX"
    /\ gateStatus = "Open"
    /\ servo = SERVO_OPEN_ANGLE
    /\ phaseCloses >= 1

\* C4: from availableSlots = TOTAL_SLOTS with the gate closed, as long as no
\* exit event has been received, after k entry events have been processed
\* availableSlots = TOTAL_SLOTS - min(k, TOTAL_SLOTS) and gateStatus went
\* Closed -> Open -> Closed min(k, TOTAL_SLOTS) times: TOTAL_SLOTS events
\* bring it to 0 and the next one is denied and leaves it 0.
C4_EntriesFillTheLot ==
    (GateIdle /\ exitsDequeued = 0) =>
        /\ availableSlots = TOTAL_SLOTS - Min(entriesDequeued, TOTAL_SLOTS)
        /\ phaseOpens = Min(entriesDequeued, TOTAL_SLOTS)
        /\ phaseCloses = Min(entriesDequeued, TOTAL_SLOTS)
        /\ gateStatus = "Closed"
        /\ servo = SERVO_CLOSED_ANGLE

\* five entry events processed and no exit event: four cycles, lot full
C4_Witness ==
    /\ GateIdle
    /\ exitsDequeued = 0
    /\ entriesDequeued = TOTAL_SLOTS + 1
    /\ availableSlots = 0
    /\ phaseCloses = TOTAL_SLOTS
    /\ gateStatus = "Closed"

\* C5: processing one exit event while availableSlots < TOTAL_SLOTS leaves
\* availableSlots alone until its last statement, which adds exactly 1, and
\* by then exactly one open command and then one close command were written.
ExitInFlight ==
    pc["gate"] \in {"takeGateOpenX", "setOpenX", "sendLcdX", "openX", "closeX",
                    "takeGateCloseX", "setClosedX", "takeSlotsInc", "incSlots"}

C5_ExitAddsOneSlot ==
    [][ExitInFlight =>
         IF pc["gate"] = "incSlots" /\ pc'["gate"] # "incSlots"
           THEN /\ servoCmds = <<SERVO_OPEN_ANGLE, SERVO_CLOSED_ANGLE>>
                /\ availableSlots < TOTAL_SLOTS => availableSlots' = availableSlots + 1
           ELSE /\ availableSlots' = availableSlots
                /\ servoCmds' \in {<<>>, <<SERVO_OPEN_ANGLE>>,
                                   <<SERVO_OPEN_ANGLE, SERVO_CLOSED_ANGLE>>}
      ]_vars

\* the lot was full of cars (four admitted), then one exit was processed
C5_Witness ==
    /\ pc["gate"] = "recvEntry"
    /\ entriesDequeued = TOTAL_SLOTS
    /\ exitsDequeued = 1
    /\ phaseCloses = TOTAL_SLOTS + 1
    /\ availableSlots = 1
    /\ servoCmds = <<SERVO_OPEN_ANGLE, SERVO_CLOSED_ANGLE>>

\* C6: neither event queue ever holds more than 5 events; a send that finds
\* its queue still full drops the event (queue unchanged) and sensorTask
\* goes on; sensorTask and gateTask always have a step they can take.
SendOnFull(at, q, size) == pc["sensor"] = at /\ pc'["sensor"] # at /\ Len(q) = size

C6_FullQueueDrops ==
    /\ [](/\ Len(entryQueue) <= ENTRY_QUEUE_SIZE
          /\ Len(exitQueue) <= EXIT_QUEUE_SIZE
          /\ ENABLED sensorTask
          /\ ENABLED gateTask)
    /\ [][/\ SendOnFull("sendEntry", entryQueue, ENTRY_QUEUE_SIZE) =>
                /\ entryQueue' = entryQueue
                /\ pc'["sensor"] = "clearEntry"
                /\ dropped'[1] = dropped[1] + 1
          /\ SendOnFull("sendExit", exitQueue, EXIT_QUEUE_SIZE) =>
                /\ exitQueue' = exitQueue
                /\ pc'["sensor"] = "checkEntry" \/ pc'["sensor"] = "clearExit"
                /\ dropped'[2] = dropped[2] + 1
      ]_vars

\* a sixth entry event was dropped on the full entry queue
C6_Witness ==
    /\ Len(entryQueue) = ENTRY_QUEUE_SIZE
    /\ dropped[1] = 1
    /\ pc["sensor"] = "clearEntry"

\* the FreeRTOS scheduler runs every ready task again and again (each loop
\* ends in a vTaskDelay, line 388, 431, 546, 567, 604, 667, 680, 756), and a
\* task blocked in xSemaphoreTake is made ready when the mutex is given
\* the mutexes a task takes somewhere in its loop
Uses(t) ==
    CASE t = "gate" -> {"slotsMutex", "gateStatusMutex"}
      [] t = "led" -> {"slotsMutex"}
      [] t = "dht" -> {"dhtMutex"}
      [] t = "lcd" -> {"lcdMutex", "timeMutex", "slotsMutex", "gateStatusMutex"}
      [] t = "web" -> {"slotsMutex", "gateStatusMutex", "dhtMutex", "timeMutex"}
      [] t = "telegram" -> {"slotsMutex", "dhtMutex", "timeMutex"}
      [] t = "wifi" -> {"timeMutex"}
      [] OTHER -> {}

\* at most MaxStarted tasks that take a common mutex run, the others are
\* in their vTaskDelay; sensorTask (no mutex) runs alone, with a vehicle at
\* either sensor, and gateTask finds the events sensorTask has sent before
InitFair ==
    /\ Globals /\ SetupDone
    /\ wifiConnected = TRUE
    /\ \E S \in SUBSET Tasks :
         /\ Cardinality(S) <= MaxStarted
         /\ Cardinality(S) > 1 => \E m \in Mutexes : \A t \in S : m \in Uses(t)
         /\ started = S
    /\ IF "sensor" \in started
         THEN carsLeft \in {<<MaxTaskCars, 0>>, <<0, MaxTaskCars>>}
         ELSE carsLeft = <<0, 0>>
    /\ IF "gate" \in started
         THEN /\ entryQueue \in {<<>>, <<Stamp(EntryEvent, 1)>>}
              /\ exitQueue \in {<<>>, <<Stamp(ExitEvent, 1)>>}
         ELSE /\ entryQueue = <<>>
              /\ exitQueue = <<>>
    /\ NothingReceived

SpecTasksFair ==
    /\ InitFair /\ [][NextTasks]_vars
    /\ SF_vars(sensorTask) /\ SF_vars(gateTask) /\ SF_vars(ledTask) /\ SF_vars(dhtTask)
    /\ SF_vars(lcdTask) /\ SF_vars(webServerTask) /\ SF_vars(telegramTask)
    /\ SF_vars(wifiTask)

\* the mutexes task t holds
Held(t) == {m \in Mutexes : mutex[m] = t}
\* the mutexes that guard the groups of shared fields
StateMutexes == Mutexes \ {"lcdMutex"}
\* the mutex a task asks for at statement l, "none" at any other statement
Requested(l) ==
    CASE l \in {"takeSlotsCheck", "takeSlotsDec", "takeSlotsInc", "takeSlots"} -> "slotsMutex"
      [] l \in {"takeGateOpenE", "takeGateCloseE", "takeGateOpenX", "takeGateCloseX",
                "takeGate"} -> "gateStatusMutex"
      [] l = "takeDht" -> "dhtMutex"
      [] l = "takeTime" -> "timeMutex"
      [] l \in {"takeLcdMsg", "takeLcdDefault"} -> "lcdMutex"
      [] OTHER -> "none"
\* task t is in xSemaphoreTake(m, ...)
Requesting(t, m) == t \in started /\ Requested(pc[t]) = m

C8_EveryRequestGranted ==
    [][\A t \in Tasks : \A m \in Mutexes :
          Requesting(t, m) /\ pc'[t] # pc[t] => mutex'[m] = t]_vars

\* C8, amended: no task waits for a mutex whose holder cannot run; under
\* fair scheduling every portMAX_DELAY request (slotsMutex, gateStatusMutex,
\* dhtMutex, lcdMutex) is eventually granted, and every bounded-wait
\* request (timeMutex, 50 or 100 ms) ends, granted or timed out.
C8_NoLockDeadlock ==
    /\ [](\A t \in Tasks : \A m \in Mutexes :
             Requesting(t, m) /\ mutex[m] # NoTask => ENABLED TaskStep(mutex[m]))
    /\ [][\A t \in Tasks : \A m \in Mutexes \ {"timeMutex"} :
             Requesting(t, m) /\ pc'[t] # pc[t] => mutex'[m] = t]_vars
    /\ \A t \in Tasks \ {"sensor"} : (t \in started /\ Requested(pc[t]) # "none")
                             ~> (Requested(pc[t]) = "none")

\* gateTask waits for slotsMutex, which lcdTask holds inside lcdMutex
C8_Witness ==
    /\ Requesting("gate", "slotsMutex")
    /\ Held("lcd") = {"lcdMutex", "slotsMutex"}

\* C9: a step changes availableSlots only if it is a step of gateTask at the
\* decrement or the increment, taken while gateTask holds slotsMutex; no
\* step of any other task changes availableSlots.
C9_OnlyGateChangesSlots ==
    [][availableSlots' # availableSlots =>
          /\ mutex["slotsMutex"] = "gate"
          /\ pc["gate"] \in {"decSlots", "incSlots"}
          /\ pc'["gate"] # pc["gate"]
          /\ \A t \in Tasks \ {"gate"} : pc'[t] = pc[t]
      ]_vars

\* gateTask is about to count a leaving vehicle, holding slotsMutex, while
\* another task waits for slotsMutex to read the count
C9_Witness ==
    /\ pc["gate"] = "incSlots"
    /\ availableSlots = TOTAL_SLOTS - 1
    /\ mutex["slotsMutex"] = "gate"
    /\ \E t \in started \ {"sensor", "gate"} : Requesting(t, "slotsMutex")

\* C10: every read and every write of availableSlots, gateStatus,
\* temperature, humidity, currentTime and currentDate by a task is made
\* while that task holds the mutex of the field's group.
C10_AccessUnderMutex == raced = {}

\* handleData has read the slot count that gateTask wrote for an entry, and
\* reads gateStatus under gateStatusMutex while gateTask waits to write it
C10_Witness ==
    /\ pc["web"] = "readGate"
    /\ mutex["gateStatusMutex"] = "web"
    /\ json = <<<<"available", TOTAL_SLOTS - 1>>, <<"occupied", 1>>>>
    /\ Requesting("gate", "gateStatusMutex")

\* C11: a sample whose temperature or humidity is NaN leaves the stored
\* temperature and humidity as they were, and dhtTask goes back to sampling;
\* the stored values change only in the two stores of a sample with both
\* components valid, and they are never NaN.
C11_InvalidSampleKeepsReading ==
    /\ [](temperature # NaN /\ humidity # NaN)
    /\ [][/\ <<dhtH, dhtT>>' # <<dhtH, dhtT>> /\ (dhtH' = NaN \/ dhtT' = NaN) =>
                /\ pc'["dht"] = "read"
                /\ temperature' = temperature
                /\ humidity' = humidity
          /\ temperature' # temperature \/ humidity' # humidity =>
                /\ pc["dht"] \in {"storeTemp", "storeHum"}
                /\ dhtH # NaN /\ dhtT # NaN
                /\ temperature' \in {temperature, dhtT}
                /\ humidity' \in {humidity, dhtH}
      ]_vars

\* after a valid sample was stored, a sample with a NaN temperature came
C11_Witness ==
    /\ temperature \in TempReadings \ {NaN} /\ humidity \in HumReadings \ {NaN}
    /\ dhtT = NaN /\ dhtH # NaN
    /\ pc["dht"] = "read"

\* the ordinals of the events a queue holds, oldest first
Seqs(q) == [i \in 1..Len(q) |-> q[i].seq]
\* the ordinals 1, 2, ..., n
UpTo(n) == [i \in 1..n |-> i]

\* C12: the events gateTask has received from a queue, followed by the
\* events still in it, are the events sensorTask queued, each once and in
\* the order of their sends; every receive counts one event.
C12_EachEventOnceInOrder ==
    /\ eventLog.got[1] \o Seqs(entryQueue) = UpTo(eventLog.sent[1])
    /\ eventLog.got[2] \o Seqs(exitQueue) = UpTo(eventLog.sent[2])
    /\ entriesDequeued = Len(eventLog.got[1])
    /\ exitsDequeued = Len(eventLog.got[2])
    /\ \A i \in 1..Len(entryQueue) : entryQueue[i].type = EntryEvent.type
    /\ \A i \in 1..Len(exitQueue) : exitQueue[i].type = ExitEvent.type

\* three entry events were received while later ones wait in the queue, and
\* the exit event was received
C12_Witness ==
    /\ eventLog.got = <<<<1, 2, 3>>, <<1>>>>
    /\ Seqs(entryQueue) = <<4, 5>>

\* sensorTask, gateTask and ledTask run, and enough vehicles come to fill
\* the lot before one leaves
InitLed ==
    /\ Baseline
    /\ wifiConnected \in BOOLEAN
    /\ started = {"sensor", "gate", "led"}
    /\ carsLeft = <<TOTAL_SLOTS, MaxExitCars>>

NextLed == environment \/ sensorTask \/ gateTask \/ ledTask

SpecLed == InitLed /\ [][NextLed]_vars

\* C13 as stated: the green and the red output are never both HIGH.
C13_LedsExclusive == ~(greenLed = HIGH /\ redLed = HIGH)

\* C14: the commands written to the barrier alternate open, close, open,
\* close: every write differs from the one before it and is made while an
\* event is in flight; an event in flight has seen no command, its open, or
\* its open and then its close; the barrier is commanded open only between
\* these two; an event is dequeued only when gateTask is between events,
\* with the barrier commanded closed and the event before it completed.
C14_CommandsAlternate ==
    /\ [](/\ servoCmds \in {<<>>, <<SERVO_OPEN_ANGLE>>,
                            <<SERVO_OPEN_ANGLE, SERVO_CLOSED_ANGLE>>}
          /\ servo = SERVO_OPEN_ANGLE <=> servoCmds = <<SERVO_OPEN_ANGLE>>
          /\ servo \in {SERVO_OPEN_ANGLE, SERVO_CLOSED_ANGLE})
    /\ [][/\ eventLog'.got # eventLog.got =>
                /\ GateIdle
                /\ servo = SERVO_CLOSED_ANGLE
                /\ servoCmds \in {<<>>, <<SERVO_OPEN_ANGLE, SERVO_CLOSED_ANGLE>>}
                /\ Len(eventLog'.got[1]) + Len(eventLog'.got[2])
                     = Len(eventLog.got[1]) + Len(eventLog.got[2]) + 1
          /\ servoCmds' # servoCmds /\ servoCmds' # <<>> =>
                /\ ~GateIdle
                /\ servo' # servo
                /\ eventLog'.got = eventLog.got
      ]_vars

\* the second event serviced is in flight, the barrier commanded open, and a
\* later event waits in its queue
C14_Witness ==
    /\ entriesDequeued = 1 /\ exitsDequeued = 1
    /\ servoCmds = <<SERVO_OPEN_ANGLE>>
    /\ servo = SERVO_OPEN_ANGLE
    /\ Len(entryQueue) >= 1

\* sensorTask and gateTask run, scheduled again and again (each loop ends
\* in a vTaskDelay, line 431 and 546); nothing is assumed of the vehicles
InitGateFair ==
    /\ Baseline
    /\ wifiConnected \in BOOLEAN
    /\ started = {"sensor", "gate"}
    /\ carsLeft = <<MaxFairCars, MaxExitCars>>

SpecGateFair ==
    /\ InitGateFair /\ [][Next]_vars
    /\ SF_vars(sensorTask) /\ SF_vars(gateTask)

\* C15: under fair scheduling every event queued in the entry or the exit
\* queue is eventually received and its processing finished; gateTask comes
\* back to the entry queue only after it has polled the exit queue, a poll
\* of a non-empty exit queue receives its oldest event, and a poll of the
\* empty entry queue goes on to the exit queue.
C15_QueuedEventsServed ==
    /\ \A n \in 1..MaxFairCars :
          (eventLog.sent[1] >= n) ~> (Len(eventLog.got[1]) >= n /\ GateIdle)
    /\ \A n \in 1..MaxExitCars :
          (eventLog.sent[2] >= n) ~> (Len(eventLog.got[2]) >= n /\ GateIdle)
    /\ [][/\ pc'["gate"] = "recvEntry" /\ pc["gate"] # "recvEntry" =>
                pc["gate"] \in {"recvExit", "incSlots"}
          /\ pc["gate"] = "recvExit" /\ pc'["gate"] # "recvExit" =>
                IF exitQueue # <<>>
                  THEN /\ eventLog'.got[2] = Append(eventLog.got[2], Head(exitQueue).seq)
                       /\ exitQueue' = Tail(exitQueue)
                  ELSE pc'["gate"] = "recvEntry"
          /\ pc["gate"] = "recvEntry" /\ pc'["gate"] # "recvEntry" /\ entryQueue = <<>> =>
                pc'["gate"] = "recvExit"
      ]_vars

\* the exit event is received after one entry event was processed, while
\* another entry event still waits in the entry queue
C15_Witness ==
    /\ eventLog.got = <<<<1>>, <<1>>>>
    /\ Seqs(entryQueue) = <<2>>
    /\ pc["gate"] = "takeGateOpenX"

\* C16: no step of webServerTask (handleData) and no step of telegramTask
\* (/start, /status, /time, /temp, /all) changes availableSlots, gateStatus,
\* temperature, humidity, currentTime, currentDate, wifiConnected,
\* internetConnected or the contents of entryQueue, exitQueue and lcdQueue.
C16_QueriesReadOnly ==
    [][pc'["web"] # pc["web"] \/ pc'["telegram"] # pc["telegram"] =>
          UNCHANGED <<availableSlots, gateStatus, temperature, humidity, currentTime,
                      currentDate, wifiConnected, internetConnected, entryQueue,
                      exitQueue, lcdQueue>>
      ]_vars

\* a snapshot was built and a /all reply composed
C16_Witness ==
    /\ pc["web"] = "send" /\ Len(json) = 10
    /\ pc["telegram"] = "sendMessage" /\ tgText = "/all" /\ Len(tgMsg) > 1

\* the snapshot being built has a field key, and the value reported for it
Has(key) == \E i \in 1..Len(json) : json[i][1] = key
Reported(key) == json[CHOOSE i \in 1..Len(json) : json[i][1] = key][2]

\* C17: in every snapshot handleData builds, available + occupied =
\* TOTAL_SLOTS and 0 <= occupied <= TOTAL_SLOTS, whatever gateTask does
\* meanwhile.
C17_OccupiedIsTotalMinusAvailable ==
    Has("occupied") =>
        /\ Has("available")
        /\ Reported("available") + Reported("occupied") = TOTAL_SLOTS
        /\ Reported("occupied") \in 0..TOTAL_SLOTS

\* handleData has reported the slots of the empty lot, and gateTask, which
\* had to wait for slotsMutex, has counted a vehicle since
C17_Witness ==
    /\ Has("occupied") /\ Reported("occupied") = 0
    /\ pc["web"] = "takeGate"
    /\ availableSlots = TOTAL_SLOTS - 1

\* the keys of the snapshot handleData has built so far, in order
Keys == [i \in 1..Len(json) |-> json[i][1]]

\* C18: every snapshot handleData sends has all ten fields (available,
\* occupied, gate, temperature, humidity, time, date, wifi, internet, uptime),
\* also when another task holds timeMutex while the snapshot is built.
C18_SnapshotHasTenFields ==
    pc["web"] = "send" =>
        Keys = <<"available", "occupied", "gate", "temperature", "humidity",
                 "time", "date", "wifi", "internet", "uptime">>

\* C19: once the tasks run, the servo is commanded only by gateTask and the
\* panel is written only by lcdTask; this includes the rest of setup() after
\* the tasks were created (line 1013-1026).
C19_DevicesHaveOneWriter ==
    [][ /\ (servo' # servo \/ servoCmds' # servoCmds) => pc'["gate"] # pc["gate"]
        /\ lcdPanel' # lcdPanel => pc'["lcd"] # pc["lcd"]
      ]_vars

\* the state shared by the tasks is as the initialisers of line 131-139 and
\* setup() leave it, the connectivity flags aside
BaselineShared ==
    /\ availableSlots = TOTAL_SLOTS
    /\ gateStatus = "Closed"
    /\ servo = SERVO_CLOSED_ANGLE
    /\ entryQueue = <<>> /\ exitQueue = <<>> /\ lcdQueue = <<>>

SendStep(at) == pc["sensor"] = at /\ pc'["sensor"] # at
\* sensorTask has read the line LOW with the latch clear and goes on to send
Detects(at) == pc["sensor"] # at /\ pc'["sensor"] = at

\* C21: while a sensor line stays LOW, sensorTask sends at most one event for
\* it, and it sends a further one only after it has read the line HIGH (which
\* is the only thing that clears the latch) and then LOW again.
C21_OneEventPerActivation ==
    [][ /\ SendStep("sendEntry") => eventLog.tried[1] = "none"
        /\ SendStep("sendExit") => eventLog.tried[2] = "none"
        /\ Detects("sendEntry") => (entryPin = LOW /\ ~entryDetected /\ entryDetected')
        /\ Detects("sendExit") => (exitPin = LOW /\ ~exitDetected /\ exitDetected')
        /\ (entryDetected /\ ~entryDetected') => (entryPin = HIGH /\ pc["sensor"] = "clearEntry")
        /\ (exitDetected /\ ~exitDetected') => (exitPin = HIGH /\ pc["sensor"] = "clearExit")
      ]_vars

\* the second vehicle is still at the entry sensor; its event was queued and
\* sensorTask has polled the line again since
C21_Witness ==
    /\ eventLog.sent[1] = 2 /\ eventLog.tried[1] = "queued"
    /\ entryPin = LOW /\ entryDetected
    /\ pc["sensor"] = "checkExit" /\ carsLeft[1] = MaxEntryCars - 2
    /\ Len(eventLog.got[1]) = 2

\* the statements of the entry branch of gateTask, after the receive
EntryBranch ==
    {"takeSlotsCheck", "checkSlots", "takeGateOpenE", "setOpenE", "sendLcdE", "openE",
     "closeE", "takeGateCloseE", "setClosedE", "takeSlotsDec", "decSlots"}

\* C22: in each cycle of gateTask the entry queue is polled before the exit
\* queue and at most one event of each is received: with both queues
\* non-empty at the start of a cycle the entry event is received, and the
\* exit queue is polled only when that event was denied or processed to its
\* end (barrier closed, status "Closed", slot counted).
C22_EntryPolledFirst ==
    [][ /\ (pc["gate"] = "recvEntry" /\ pc'["gate"] # "recvEntry"
              /\ entryQueue # <<>> /\ exitQueue # <<>>) =>
                /\ entryQueue' = Tail(entryQueue) /\ exitQueue' = exitQueue
                /\ pc'["gate"] = "takeSlotsCheck"
        /\ Len(eventLog'.got[1]) > Len(eventLog.got[1]) =>
                /\ pc["gate"] = "recvEntry"
                /\ Len(eventLog'.got[1]) = Len(eventLog.got[1]) + 1
        /\ Len(eventLog'.got[2]) > Len(eventLog.got[2]) =>
                /\ pc["gate"] = "recvExit"
                /\ Len(eventLog'.got[2]) = Len(eventLog.got[2]) + 1
                /\ servo = SERVO_CLOSED_ANGLE /\ gateStatus = "Closed"
                /\ Held("gate") = {}
        /\ pc["gate"] \in EntryBranch =>
                /\ pc'["gate"] \in EntryBranch \cup {"recvExit"}
                /\ eventLog'.got = eventLog.got
        /\ (pc'["gate"] = "recvExit" /\ pc["gate"] # "recvExit") =>
                \/ pc["gate"] = "recvEntry" /\ entryQueue = <<>>
                \/ pc["gate"] = "checkSlots" /\ availableSlots = 0
                \/ pc["gate"] = "decSlots"
      ]_vars

\* both queues held an event; the entry event was processed to its end and
\* the exit event has just been received, with two entry events still queued
C22_Witness ==
    /\ pc["gate"] = "takeGateOpenX"
    /\ eventLog.got = <<<<1>>, <<1>>>>
    /\ Seqs(entryQueue) = <<2, 3>>
    /\ availableSlots = TOTAL_SLOTS - 1
    /\ phaseCloses = 1

\* the statements of the exit branch of gateTask, in program order, and the
\* statement after each
ExitChain ==
    <<"takeGateOpenX", "setOpenX", "sendLcdX", "openX", "closeX", "takeGateCloseX",
      "setClosedX", "takeSlotsInc", "incSlots", "recvEntry">>
AfterInExit(l) == ExitChain[(CHOOSE i \in 1..(Len(ExitChain) - 1) : ExitChain[i] = l) + 1]

\* C23: an exit event is never denied for capacity: every exit event
\* received is taken through the whole exit branch, whatever availableSlots
\* is, with the barrier commanded open and then closed; the last statement
\* leaves availableSlots unchanged when it is already TOTAL_SLOTS.
C23_ExitNeverDenied ==
    [][ /\ (pc["gate"] = "recvExit" /\ pc'["gate"] # "recvExit" /\ exitQueue # <<>>) =>
                pc'["gate"] = "takeGateOpenX"
        /\ (ExitInFlight /\ pc'["gate"] # pc["gate"]) =>
                /\ pc'["gate"] = AfterInExit(pc["gate"])
                /\ pc["gate"] = "openX" => servo' = SERVO_OPEN_ANGLE
                /\ pc["gate"] = "closeX" => servo' = SERVO_CLOSED_ANGLE
                /\ pc["gate"] = "incSlots" =>
                      /\ servoCmds = <<SERVO_OPEN_ANGLE, SERVO_CLOSED_ANGLE>>
                      /\ availableSlots = TOTAL_SLOTS => availableSlots' = TOTAL_SLOTS
      ]_vars

\* the one exit event met the lot with every slot free: the barrier was
\* opened and closed for it and the count is still TOTAL_SLOTS
C23_Witness ==
    /\ pc["gate"] = "recvEntry"
    /\ exitsDequeued = 1 /\ entriesDequeued = 0
    /\ servoCmds = <<SERVO_OPEN_ANGLE, SERVO_CLOSED_ANGLE>>
    /\ phaseOpens = 1 /\ phaseCloses = 1
    /\ availableSlots = TOTAL_SLOTS

\* C24: no task writes an output (the servo, an LED, the panel) or sleeps
\* while it holds the mutex of a field group; gateTask holds no mutex while
\* the barrier is commanded open.
C24_NoOutputUnderStateMutex ==
    [][ /\ \A t \in Tasks :
              (pc'[t] # pc[t] /\ <<servo, greenLed, redLed, lcdPanel>>'
                                    # <<servo, greenLed, redLed, lcdPanel>>) =>
                  Held(t) \cap StateMutexes = {}
        /\ servo = SERVO_OPEN_ANGLE => Held("gate") = {}
      ]_vars

\* C25: wifiConnected and internetConnected have a mutex of their own: every
\* write of them by wifiTask and every read of them by handleData is made
\* while the task holds it (here: while it holds any mutex at all).
C25_FlagsUnderMutex ==
    [][ /\ <<wifiConnected, internetConnected>>' # <<wifiConnected, internetConnected>> =>
              Held("wifi") # {}
        /\ (pc["web"] \in {"readWifi", "readInternet"} /\ pc'["web"] # pc["web"]) =>
              Held("web") # {}
      ]_vars

\* the panel shows the two lines of message m, and nothing else
Shows(m) == lcdPanel = PanelPrint(PanelPrint(EmptyPanel, 1, <<m.line1>>), 2, <<m.line2>>)
\* the panel shows a finished default rendering
DefaultShown ==
    /\ pc["lcd"] \in {"sleep", "recv"}
    /\ Len(lcdPanel.line2) = 2 /\ lcdPanel.line2[1] = "Gate:"

\* C26: a message lcdTask receives from lcdQueue is shown, and the default
\* rendering does not overwrite it before updateInterval has elapsed since;
\* when messages stop arriving the default rendering eventually replaces it;
\* an iteration whose poll finds a message does not draw the default
\* rendering.
C26_MessageHeldThenDefault ==
    /\ [][ /\ Len(lcdQueue') < Len(lcdQueue) =>
                /\ pc["lcd"] = "recv" /\ pc'["lcd"] = "takeLcdMsg"
                /\ lcdMsg' = Head(lcdQueue)
           /\ (pc["lcd"] = "showMsg" /\ pc'["lcd"] # "showMsg") =>
                /\ Shows(lcdMsg)' /\ ~lcdElapsed' /\ pc'["lcd"] = "sleep"
           /\ (pc["lcd"] = "recv" /\ pc'["lcd"] = "takeLcdDefault") =>
                lcdElapsed /\ lcdQueue = <<>>
           /\ (~lcdElapsed /\ lcdElapsed') => pc["lcd"] = "sleep"
           /\ ((Shows(EnteringMsg) \/ Shows(ExitingMsg)) /\ lcdPanel' # lcdPanel) =>
                \/ pc["lcd"] = "showMsg"
                \/ pc["lcd"] = "takeLcdDefault" /\ lcdElapsed
         ]_vars
    /\ \A m \in {EnteringMsg, ExitingMsg} : Shows(m) ~> DefaultShown

\* the message of the exit event is on the panel, updateInterval has
\* elapsed since it was shown and lcdQueue is empty: the default rendering
\* is due
C26_Witness ==
    /\ Shows(ExitingMsg) /\ lcdElapsed /\ lcdQueue = <<>>
    /\ pc["lcd"] = "recv"
    /\ gateStatus = "Closed" /\ exitsDequeued = 1

\* sensorTask takes a step from statement l
SensorFrom(l) == pc["sensor"] = l /\ pc'["sensor"] # l

\* C27: the two lines are handled independently in one iteration of
\* sensorTask: a line read LOW with its latch clear gets its event sent in
\* that iteration, into its own queue and subject only to that queue's
\* capacity, whatever was read, latched or sent for the other line; the
\* entry half of the iteration is always followed by the exit half.
C27_LinesIndependent ==
    [][ /\ (SensorFrom("checkEntry") /\ entryPin = LOW /\ ~entryDetected) =>
                pc'["sensor"] = "sendEntry"
        /\ (SensorFrom("checkExit") /\ exitPin = LOW /\ ~exitDetected) =>
                pc'["sensor"] = "sendExit"
        /\ SensorFrom("sendEntry") =>
                /\ Len(entryQueue) < ENTRY_QUEUE_SIZE => Len(entryQueue') = Len(entryQueue) + 1
                /\ exitQueue' = exitQueue /\ pc'["sensor"] = "clearEntry"
        /\ SensorFrom("sendExit") =>
                /\ Len(exitQueue) < EXIT_QUEUE_SIZE => Len(exitQueue') = Len(exitQueue) + 1
                /\ entryQueue' = entryQueue /\ pc'["sensor"] = "clearExit"
        /\ SensorFrom("clearEntry") => pc'["sensor"] = "checkExit"
        /\ (SensorFrom("checkEntry") \/ SensorFrom("sendEntry") \/ SensorFrom("clearEntry")) =>
                exitDetected' = exitDetected
        /\ (SensorFrom("checkExit") \/ SensorFrom("sendExit") \/ SensorFrom("clearExit")) =>
                entryDetected' = entryDetected
      ]_vars

\* both lines are active; the first entry event and the first exit event
\* were sent one after the other and both vehicles are latched
C27_Witness ==
    /\ pc["sensor"] = "clearExit"
    /\ entryPin = LOW /\ exitPin = LOW
    /\ entryDetected /\ exitDetected
    /\ eventLog.tried = <<"queued", "queued">>
    /\ eventLog.sent = <<1, 1>>
    /\ carsLeft = <<MaxEntryCars - 1, MaxExitCars - 1>>

\* the statements of an admitted entry, from the admission to the decrement
Admitted == EntryBranch \ {"takeSlotsCheck", "checkSlots"}

\* C28: an admitted entry decrements availableSlots exactly once, at its last
\* statement, when gateStatus is "Closed" again; from the admission check to
\* the decrement no step of any task changes availableSlots, so it is still
\* above 0 when it is decremented.
C28_AdmittedEntryCountedOnce ==
    /\ [](pc["gate"] \in Admitted => availableSlots > 0)
    /\ [][ /\ (pc["gate"] = "checkSlots" /\ pc'["gate"] \in Admitted) =>
                 availableSlots > 0 /\ pc'["gate"] = "takeGateOpenE"
           /\ (pc["gate"] \in Admitted /\ pc["gate"] # "decSlots") =>
                 /\ availableSlots' = availableSlots
                 /\ pc'["gate"] \in Admitted
           /\ (pc["gate"] = "decSlots" /\ pc'["gate"] # "decSlots") =>
                 /\ availableSlots' = availableSlots - 1
                 /\ gateStatus = "Closed" /\ servo = SERVO_CLOSED_ANGLE
                 /\ servoCmds = <<SERVO_OPEN_ANGLE, SERVO_CLOSED_ANGLE>>
                 /\ pc'["gate"] = "recvExit"
         ]_vars

\* gateTask holds slotsMutex for the decrement of an admitted entry while
\* another task waits for slotsMutex to read the count
C28_Witness ==
    /\ pc["gate"] = "decSlots"
    /\ availableSlots = TOTAL_SLOTS
    /\ mutex["slotsMutex"] = "gate"
    /\ gateStatus = "Closed"
    /\ \E t \in started \ {"sensor", "gate"} : Requesting(t, "slotsMutex")

\* C29: whenever the last angle written to the servo is the open angle,
\* gateStatus is "Open": it is set to "Open" before the open angle is
\* written and back to "Closed" only after the close angle was written, so
\* a task that reads gateStatus while the barrier is commanded open reads
\* "Open".
C29_OpenBarrierReportsOpen ==
    /\ [](servo = SERVO_OPEN_ANGLE => gateStatus = "Open")
    /\ [][ /\ (servo # SERVO_OPEN_ANGLE /\ servo' = SERVO_OPEN_ANGLE) =>
                 gateStatus = "Open" /\ gateStatus' = "Open"
           /\ (gateStatus = "Open" /\ gateStatus' # "Open") =>
                 /\ servo = SERVO_CLOSED_ANGLE /\ servo' = SERVO_CLOSED_ANGLE
                 /\ servoCmds = <<SERVO_OPEN_ANGLE, SERVO_CLOSED_ANGLE>>
           /\ (pc["web"] = "readGate" /\ pc'["web"] # "readGate"
                 /\ servo = SERVO_OPEN_ANGLE) =>
                 json' = Append(json, <<"gate", "Open">>)
         ]_vars

\* handleData reads gateStatus, holding gateStatusMutex, while the barrier
\* is commanded open for the entry event
C29_Witness ==
    /\ servo = SERVO_OPEN_ANGLE /\ gateStatus = "Open"
    /\ pc["gate"] = "closeE"
    /\ pc["web"] = "readGate" /\ mutex["gateStatusMutex"] = "web"

\* C30: an event dropped on a full queue leaves the latch of its line set;
\* while the vehicle stays at the sensor no further send is made for it,
\* also when the queue has room again, and the line is detected again only
\* after it has gone HIGH and LOW again.
C30_DroppedEventNotRetried ==
    /\ [](/\ (eventLog.tried[1] = "dropped" /\ entryPin = LOW) => entryDetected
          /\ (eventLog.tried[2] = "dropped" /\ exitPin = LOW) => exitDetected)
    /\ [][ /\ dropped[1]' # dropped[1] =>
                 /\ entryDetected' /\ entryQueue' = entryQueue
                 /\ eventLog'.tried[1] = "dropped"
           /\ dropped[2]' # dropped[2] =>
                 /\ exitDetected' /\ exitQueue' = exitQueue
                 /\ eventLog'.tried[2] = "dropped"
           /\ eventLog.tried[1] = "dropped" =>
                 /\ ~SendStep("sendEntry") /\ eventLog'.sent[1] = eventLog.sent[1]
                 /\ eventLog'.tried[1] # "dropped" => (entryPin = HIGH /\ entryPin' = LOW)
           /\ eventLog.tried[2] = "dropped" =>
                 /\ ~SendStep("sendExit") /\ eventLog'.sent[2] = eventLog.sent[2]
                 /\ eventLog'.tried[2] # "dropped" => (exitPin = HIGH /\ exitPin' = LOW)
         ]_vars

\* the sixth vehicle's event was dropped; the vehicle is still at the entry
\* sensor, latched, and the queue has room again
C30_Witness ==
    /\ dropped[1] = 1 /\ eventLog.tried[1] = "dropped"
    /\ entryPin = LOW /\ entryDetected
    /\ pc["sensor"] = "checkEntry"
    /\ Len(entryQueue) < ENTRY_QUEUE_SIZE

\* C31: in every reachable state internetConnected implies wifiConnected, so
\* a task that reads the two flags never finds internetConnected true with
\* wifiConnected false.
C31_InternetImpliesWifi == internetConnected => wifiConnected
====
